---- MODULE Spec2Model ----
(***************************************************************************)
(* Verification model of qutrit-calibration.                               *)
(*                                                                         *)
(*   Spec     the calibration parameter store (QutritCalibrations), the    *)
(*            schedule resolution that reads it (qutrit_context,           *)
(*            play_calibration) and the calibration updates that write it. *)
(*   SelSpec  MultipleCurveAnalysis._run_analysis, one loop iteration per  *)
(*            step.                                                        *)
(*   FmtSpec  format_params over a binary floating-point format of         *)
(*            MantBits significant bits.                                   *)
(***************************************************************************)
EXTENDS Integers, Sequences, FiniteSets, TLC

VARIABLES
    params,      \* Calibrations._params: ParameterKey -> list of ParameterValue
    now,         \* wall clock read by datetime.now() when a bare value is added
    nadded,      \* entries appended since construction
    built,       \* the stimulus circuits() resolved, until it is handed to the backend
    run_pc,      \* experiment run: "idle", "built", "analysed" or "failed"
    analyses,    \* MultipleCurveAnalysis.analyses: what each candidate does when run
    idx,         \* position of the for loop over self.analyses
    all_results, \* _run_analysis local: results of the surviving candidates
    all_figures, \* _run_analysis local: figures of the surviving candidates
    chisqs,      \* _run_analysis local: chi-square of the surviving candidates
    attempted,   \* candidates whose _run_analysis has been called, in call order
    sel_pc,      \* "loop", "select", "returned" or "raised"
    ret,         \* the pair _run_analysis returned
    rounding,    \* decimal.getcontext().rounding
    fmt_value,   \* format_params argument value
    fmt_digit,   \* format_params argument digit
    fmt_pc,      \* "start", "once" or "twice"
    fmt_out,     \* format_params(value, digit)
    fmt_out2,    \* format_params(format_params(value, digit), digit)
    exp_data,    \* ExperimentData of the experiment that was run and analysed last
    circ_opt,    \* experiment_options of the experiment whose circuits() is running
    circ_pc,     \* circuits(): "start", "loop", "returned" or "raised"
    circ_i,      \* circuits(): sweep points handled so far
    circs,       \* circuits(): the list of stimulus programs built so far
    rb_length,   \* _generate_sequence argument length
    rb_pc,       \* _generate_sequence: "loop" or "done"
    rb_composed, \* _generate_sequence local: the running composition
    rb_emitted,  \* group elements handed to _to_parameters, in emission order
    rb_yield,    \* the value of the latest yield, NoYield before the first one
    rbc_opt,     \* experiment_options of the benchmarking experiment
    rbc_pc,      \* BaseEFRB1Q.circuits(): "start", "next", "steps" or "returned"
    rbc_call,    \* 1 during the first call of circuits(), 2 during the second
    rng,         \* circuits() local: the generator
    np_random,   \* numpy's global generator
    rbc_sample,  \* circuits() local: sample_ind
    rbc_len_i,   \* circuits(): position of the loop over lengths
    rbc_n,       \* _generate_sequence: values yielded so far
    rbc_composed,\* _generate_sequence local: composed
    rb_circ,     \* circuits() local: instructions of the circuit under construction
    exp_circs,   \* circuits() local: the circuits finished so far
    first_circs, \* what the first call of circuits() returned
    fb_backend,  \* from_backend argument backend
    fb_pc,       \* from_backend: "loop", "constructed", "returned" or "raised"
    fb_qubit,    \* from_backend: position of the loop over the qubits
    control_channel_map, \* from_backend local: pairs (qubit, channel)
    blacklist,   \* from_backend local
    fb_warnings, \* warnings issued by from_backend
    cals,        \* the store from_backend builds
    saved,       \* the file written by save
    loaded,      \* the store QutritCalibrations.load returned
    loaded_params, \* its parameter values
    x_kind,      \* the class of the experiment being run
    x_pc,        \* its step: "idle", "built", "submitted", "analysed", "updating",
                 \* "done" or "raised"
    x_results,   \* the analysis results of its experiment data
    x_error,     \* the exception the run ended with
    x_pre,       \* current amp of x12 and of sx12 when update_calibrations began
    reader,      \* what a resolution of x12 and sx12 for another experiment read
    thread_rounding, \* decimal.getcontext().rounding of each thread
    imported,    \* utils has been imported
    ctx_value,   \* format_params argument value
    ctx_digit,   \* format_params argument digit
    ctx_out,     \* what format_params returned in each thread
    other_out    \* what round(Decimal(value), digit) of other code gave in each thread

storeVars == <<params, now, nadded, built, run_pc>>
selVars == <<analyses, idx, all_results, all_figures, chisqs, attempted, sel_pc, ret>>
fmtVars == <<rounding, fmt_value, fmt_digit, fmt_pc, fmt_out, fmt_out2>>
updVars == <<exp_data>>
circVars == <<circ_opt, circ_pc, circ_i, circs>>
rbVars == <<rb_length, rb_pc, rb_composed, rb_emitted, rb_yield>>
rbcVars == <<rbc_opt, rbc_pc, rbc_call, rng, np_random, rbc_sample, rbc_len_i, rbc_n,
             rbc_composed, rb_circ, exp_circs, first_circs>>
fbVars == <<fb_backend, fb_pc, fb_qubit, control_channel_map, blacklist, fb_warnings, cals,
            saved, loaded, loaded_params>>
runVars == <<x_kind, x_pc, x_results, x_error, x_pre, reader>>
ctxVars == <<thread_rounding, imported, ctx_value, ctx_digit, ctx_out, other_out>>
vars == <<storeVars, selVars, fmtVars, updVars, circVars, rbVars, rbcVars, fbVars, runVars,
         ctxVars>>

(***************************************************************************)
(* Bounds of the model.                                                    *)
(***************************************************************************)
MaxTime == 1
MaxEntries == 2
MaxCands == 3
MaxChi == 1
MantBits == 4
MaxDigit == 1
MaxMag == 2

(***************************************************************************)
(* Exact rational arithmetic for parameter values: <<numerator, denom>>,   *)
(* denominator positive, in lowest terms.                                  *)
(***************************************************************************)
Abs(x) == IF x < 0 THEN -x ELSE x

RECURSIVE Gcd(_, _)
Gcd(a, b) == IF b = 0 THEN a ELSE Gcd(b, a % b)

Rat(n, d) ==
    LET s == IF d < 0 THEN -1 ELSE 1
        g == Gcd(Abs(n), Abs(d))
    IN  <<(s * n) \div g, (s * d) \div g>>

RAdd(x, y) == Rat(x[1] * y[2] + y[1] * x[2], x[2] * y[2])
\* common factors are cancelled crosswise before multiplying
RMul(x, y) ==
    LET g1 == Gcd(Abs(x[1]), y[2])
        g2 == Gcd(Abs(y[1]), x[2])
    IN  Rat((x[1] \div g1) * (y[1] \div g2), (x[2] \div g2) * (y[2] \div g1))
RDiv(x, y) == RMul(x, Rat(y[2], y[1]))

(***************************************************************************)
(* Parameter keys: (parameter name, qubits, schedule name).                *)
(***************************************************************************)
KeyAlpha == <<"α", 0, "None">>
KeyDriveFreq == <<"drive_freq", 0, "None">>
KeyAmpSX == <<"amp", 0, "sx12">>
Keys == {KeyAlpha, KeyDriveFreq, KeyAmpSX}

Missing == "MissingParameter"

(***************************************************************************)
(* The parameter store.                                                    *)
(***************************************************************************)
ParameterValue(v, t) == [value |-> v, date_time |-> t, valid |-> TRUE]

AddValueDropDuplicate(p, k, pv) ==
    IF \E i \in 1..Len(p[k]) : p[k][i].date_time = pv.date_time
    THEN p
    ELSE [p EXCEPT ![k] = Append(@, pv)]

AddValue(p, k, pv) == [p EXCEPT ![k] = Append(@, pv)]

Invalidate(p, k, before) ==
    [p EXCEPT ![k] = [i \in DOMAIN @ |->
        IF @[i].date_time < before THEN [@[i] EXCEPT !.valid = FALSE] ELSE @[i]]]

\* Index of the current entry among the first n entries of h: the valid entry
\* with the greatest date_time not after q, the later inserted on a tie; 0 if none.
RECURSIVE CurrentIndex(_, _, _)
CurrentIndex(h, n, q) ==
    IF n = 0 THEN 0
    ELSE LET best == CurrentIndex(h, n - 1, q)
         IN  IF h[n].valid /\ h[n].date_time <= q
                /\ (best = 0 \/ h[n].date_time >= h[best].date_time)
             THEN n ELSE best

GetCurrentLastInserted(p, k, q) ==
    IF Len(p[k]) = 0 THEN Missing ELSE p[k][Len(p[k])].value

GetCurrent(p, k, q) ==
    LET i == CurrentIndex(p[k], Len(p[k]), q)
    IN  IF i = 0 THEN Missing ELSE p[k][i].value

(***************************************************************************)
(* Construction: QutritCalibrations.from_backend with libraries=None.      *)
(* With add_parameter_defaults the backend's drive frequency is added as a *)
(* bare value (stamped with the clock) and its anharmonicity as a          *)
(* ParameterValue carrying the backend's own date_time.                    *)
(***************************************************************************)
BackendDriveFreq == <<5000, 1>>
BackendAnharmonicity == <<-300, 1>>

FromBackend(add_parameter_defaults, clock, anh_datetime) ==
    LET empty == [k \in Keys |-> <<>>]
        withFreq == AddValue(empty, KeyDriveFreq, ParameterValue(BackendDriveFreq, clock))
    IN  IF add_parameter_defaults
        THEN AddValue(withFreq, KeyAlpha, ParameterValue(BackendAnharmonicity, anh_datetime))
        ELSE empty

NotBuilt == [status |-> "none", freq |-> <<0, 1>>, amp |-> <<0, 1>>]

StoreInit ==
    /\ now = 0
    /\ \E d \in BOOLEAN : params = FromBackend(d, 0, 0)
    /\ nadded = 0
    /\ built = NotBuilt
    /\ run_pc = "idle"

StoreIdle ==
    /\ now = 0
    /\ params = [k \in Keys |-> <<>>]
    /\ nadded = 0
    /\ built = NotBuilt
    /\ run_pc = "idle"

(***************************************************************************)
(* Values a caller may add, per key.                                       *)
(***************************************************************************)
ValueSet(k) ==
    IF k = KeyAlpha THEN {<<-310, 1>>}
    ELSE IF k = KeyDriveFreq THEN {<<5001, 1>>}
    ELSE {<<1, 5>>, <<7, 100>>}

\* add_value(key, value, timestamp): any timestamp up to the present.
AddParameterValue ==
    /\ nadded < MaxEntries
    /\ \E k \in Keys : \E v \in ValueSet(k) : \E t \in 0..now :
          params' = AddValue(params, k, ParameterValue(v, t))
    /\ nadded' = nadded + 1
    /\ UNCHANGED <<now, built, run_pc, selVars, fmtVars, updVars, circVars, rbVars, rbcVars, fbVars, runVars, ctxVars>>

\* invalidate(key, before_time)
InvalidateBefore ==
    /\ \E k \in Keys : \E c \in 1..(now + 1) :
          /\ \E i \in 1..Len(params[k]) : params[k][i].valid /\ params[k][i].date_time < c
          /\ params' = Invalidate(params, k, c)
    /\ UNCHANGED <<now, nadded, built, run_pc, selVars, fmtVars, updVars, circVars, rbVars, rbcVars, fbVars, runVars, ctxVars>>

Tick ==
    /\ now < MaxTime
    /\ now' = now + 1
    /\ UNCHANGED <<params, nadded, built, run_pc, selVars, fmtVars, updVars, circVars, rbVars, rbcVars, fbVars, runVars, ctxVars>>

(***************************************************************************)
(* Schedule resolution.                                                    *)
(***************************************************************************)
QutritContextAtConstruction(p, clock, offset) ==
    LET anh == GetCurrent(p, KeyAlpha, 0)
        f01 == GetCurrent(p, KeyDriveFreq, 0)
    IN  IF anh = Missing \/ f01 = Missing THEN Missing
        ELSE RAdd(RAdd(f01, anh), offset)

\* qutrit_context: set_frequency(f01 + anh + offset, channel)
QutritContext(p, clock, offset) ==
    LET anh == GetCurrent(p, KeyAlpha, clock)
        f01 == GetCurrent(p, KeyDriveFreq, clock)
    IN  IF anh = Missing \/ f01 = Missing THEN Missing
        ELSE RAdd(RAdd(f01, anh), offset)

\* play_calibration: get_schedule binds the schedule's free amp to the store
PlayCalibration(p, clock, name) == GetCurrent(p, <<"amp", 0, name>>, clock)

\* FineEFSXAmplitudeCal._sequence_under_test: qutrit_context, then sx12 plays
SequenceUnderTest(p, clock) ==
    LET freq == QutritContext(p, clock, <<0, 1>>)
        amp == PlayCalibration(p, clock, "sx12")
    IN  IF freq = Missing \/ amp = Missing
        THEN [status |-> Missing, freq |-> <<0, 1>>, amp |-> <<0, 1>>]
        ELSE [status |-> "ok", freq |-> freq, amp |-> amp]

\* FineEFSXAmplitudeCal.circuits(): the stimulus is kept until it is handed to
\* the backend; a MissingParameter error leaves nothing built.
Circuits ==
    /\ run_pc \in {"idle", "failed"}
    /\ LET r == SequenceUnderTest(params, now)
       IN  IF r.status = "ok"
           THEN built' = r /\ run_pc' = "built"
           ELSE built' = NotBuilt /\ run_pc' = "failed"
    /\ UNCHANGED <<params, now, nadded, selVars, fmtVars, updVars, circVars, rbVars, rbcVars, fbVars, runVars, ctxVars>>

\* the batch is executed by the backend and the outcome data analysed
RunAndAnalyse ==
    /\ run_pc = "built"
    /\ built' = NotBuilt
    /\ run_pc' = "analysed"
    /\ UNCHANGED <<params, now, nadded, selVars, fmtVars, updVars, circVars, rbVars, rbcVars, fbVars, runVars, ctxVars>>

(***************************************************************************)
(* Calibration update of the fine sx12 amplitude experiment.  Angles are   *)
(* in units of pi/2, so the target angle pi/2 is 1.                        *)
(***************************************************************************)
TargetAngleSX == <<1, 1>>
AngleErrors == {<<1, 10>>, <<-1, 5>>}

FineAmp(current_amp, target_angle, angle_error) ==
    RDiv(RMul(current_amp, target_angle), RAdd(target_angle, angle_error))

UpdateOverwrite(p, k, pv) ==
    IF Len(p[k]) = 0 THEN AddValue(p, k, pv)
    ELSE [p EXCEPT ![k] = [@ EXCEPT ![Len(@)] = pv]]

\* BaseUpdater.add_parameter_value(cal=self.calibrations, ..., value=new_amp, ...)
UpdaterAddParameterValue(p, k, pv) == AddValue(p, k, pv)

\* FineEFSXAmplitudeCal.update_calibrations; the new entry is stamped with the
\* time of the experiment data, which is not after the present.
FineSXUpdateCalibrations ==
    /\ run_pc = "analysed"
    /\ nadded < MaxEntries
    /\ LET current_amp == GetCurrent(params, KeyAmpSX, now)
       IN  /\ current_amp # Missing
           /\ \E angle_error \in AngleErrors : \E t \in 0..now :
                 params' = UpdaterAddParameterValue(params, KeyAmpSX,
                     ParameterValue(FineAmp(current_amp, TargetAngleSX, angle_error), t))
    /\ nadded' = nadded + 1
    /\ run_pc' = "idle"
    /\ UNCHANGED <<now, built, selVars, fmtVars, updVars, circVars, rbVars, rbcVars, fbVars, runVars, ctxVars>>

\* the same handler when get_parameter_value finds no current amp: it raises
\* before anything is added
FineSXUpdateMissing ==
    /\ run_pc = "analysed"
    /\ GetCurrent(params, KeyAmpSX, now) = Missing
    /\ run_pc' = "failed"
    /\ UNCHANGED <<params, now, nadded, built, selVars, fmtVars, updVars, circVars, rbVars, rbcVars, fbVars, runVars, ctxVars>>

(***************************************************************************)
(* MultipleCurveAnalysis._run_analysis.                                    *)
(*                                                                         *)
(* A candidate analysis either raises or returns (results, figures).  A    *)
(* result entry has a name and, when it is a fit-parameter entry (its name *)
(* starts with PARAMS_ENTRY_PREFIX), a value that carries the attribute    *)
(* chisq or lacks it.  src tags each object with the candidate that made   *)
(* it.                                                                     *)
(***************************************************************************)
NaN == [nan |-> TRUE, val |-> 0]
Num(c) == [nan |-> FALSE, val |-> c]
NoError == "none"
CandidateError == "exception raised by a candidate"
AllNaNError == "ValueError: All-NaN slice encountered"
EmptyArgminError == "ValueError: attempt to get argmin of an empty sequence"

ChiValues == 0..MaxChi

OtherEntry(i) == [name |-> "other", has_chisq |-> FALSE, chisq |-> 0, src |-> i]
ParamsEntry(i, c) == [name |-> "@Parameters_", has_chisq |-> TRUE, chisq |-> c, src |-> i]
ParamsEntryNoChisq(i) == [name |-> "@Parameters_", has_chisq |-> FALSE, chisq |-> 0, src |-> i]

ResultLists(i) ==
    {<<>>, <<OtherEntry(i)>>, <<ParamsEntryNoChisq(i)>>}
    \cup {<<ParamsEntry(i, c)>> : c \in ChiValues}
    \cup {<<OtherEntry(i), ParamsEntry(i, c)>> : c \in ChiValues}
    \cup {<<ParamsEntryNoChisq(i), ParamsEntry(i, c)>> : c \in ChiValues}

Candidates(i) ==
    {[raises |-> TRUE, results |-> <<>>, figures |-> <<>>]}
    \cup {[raises |-> FALSE, results |-> r, figures |-> <<[figure |-> i]>>] :
            r \in ResultLists(i)}

IsParamsEntry(res) == res.name = "@Parameters_"

\* for res in results: if res.name.startswith(PARAMS_ENTRY_PREFIX): ...; break
\* Index of the first fit-parameter entry, 0 when the loop runs to its else.
FirstParams(results) ==
    IF \E j \in 1..Len(results) : IsParamsEntry(results[j])
    THEN CHOOSE j \in 1..Len(results) :
            /\ IsParamsEntry(results[j])
            /\ \A m \in 1..(j - 1) : ~IsParamsEntry(results[m])
    ELSE 0

\* try: chisq = res.value.chisq  except AttributeError: chisq = np.nan
ChisqOf(res) == IF res.has_chisq THEN Num(res.chisq) ELSE NaN

\* np.nanargmin: NaN counts as +inf, the first minimum wins, an all-NaN
\* sequence raises ValueError.  Indices are 1-based here.
NanArgMinLast(cs) ==
    IF \A i \in 1..Len(cs) : cs[i].nan THEN 0
    ELSE CHOOSE i \in 1..Len(cs) :
            /\ ~cs[i].nan
            /\ \A j \in 1..Len(cs) : ~cs[j].nan => cs[i].val <= cs[j].val
            /\ \A j \in (i + 1)..Len(cs) : ~cs[j].nan => cs[i].val < cs[j].val

NanArgMin(cs) ==
    IF \A i \in 1..Len(cs) : cs[i].nan THEN 0
    ELSE CHOOSE i \in 1..Len(cs) :
            /\ ~cs[i].nan
            /\ \A j \in 1..Len(cs) : ~cs[j].nan => cs[i].val <= cs[j].val
            /\ \A j \in 1..(i - 1) : ~cs[j].nan => cs[i].val < cs[j].val

Returned(results, figures, error) ==
    [results |-> results, figures |-> figures, error |-> error]
NoReturn == Returned(<<>>, <<>>, NoError)

\* the lists of n declared candidates
RECURSIVE AnalysesLists(_)
AnalysesLists(n) ==
    IF n = 0 THEN {<<>>}
    ELSE {Append(a, c) : a \in AnalysesLists(n - 1), c \in Candidates(n)}

SelInit ==
    /\ \E n \in 0..MaxCands : analyses \in AnalysesLists(n)
    /\ idx = 0
    /\ all_results = <<>>
    /\ all_figures = <<>>
    /\ chisqs = <<>>
    /\ attempted = <<>>
    /\ sel_pc = "loop"
    /\ ret = NoReturn

SelIdle ==
    /\ analyses = <<>>
    /\ idx = 0
    /\ all_results = <<>>
    /\ all_figures = <<>>
    /\ chisqs = <<>>
    /\ attempted = <<>>
    /\ sel_pc = "loop"
    /\ ret = NoReturn

\* except Exception: continue
CandidateRaisesEscapes ==
    /\ sel_pc = "loop" /\ idx < Len(analyses)
    /\ analyses[idx + 1].raises
    /\ attempted' = Append(attempted, idx + 1)
    /\ sel_pc' = "raised"
    /\ ret' = Returned(<<>>, <<>>, CandidateError)
    /\ UNCHANGED <<analyses, idx, all_results, all_figures, chisqs, storeVars, fmtVars, updVars, circVars, rbVars, rbcVars, fbVars, runVars, ctxVars>>

CandidateRaises ==
    /\ sel_pc = "loop" /\ idx < Len(analyses)
    /\ analyses[idx + 1].raises
    /\ attempted' = Append(attempted, idx + 1)
    /\ idx' = idx + 1
    /\ UNCHANGED <<analyses, all_results, all_figures, chisqs, sel_pc, ret, storeVars, fmtVars, updVars, circVars, rbVars, rbcVars, fbVars, runVars, ctxVars>>

\* the for loop over results ends without a fit-parameter entry: else: continue
CandidateWithoutParams ==
    /\ sel_pc = "loop" /\ idx < Len(analyses)
    /\ ~analyses[idx + 1].raises
    /\ FirstParams(analyses[idx + 1].results) = 0
    /\ attempted' = Append(attempted, idx + 1)
    /\ idx' = idx + 1
    /\ UNCHANGED <<analyses, all_results, all_figures, chisqs, sel_pc, ret, storeVars, fmtVars, updVars, circVars, rbVars, rbcVars, fbVars, runVars, ctxVars>>

\* a fit-parameter entry is found: the candidate is kept with its chi-square
CandidateKept ==
    /\ sel_pc = "loop" /\ idx < Len(analyses)
    /\ ~analyses[idx + 1].raises
    /\ LET cand == analyses[idx + 1]
           j == FirstParams(cand.results)
       IN  /\ j # 0
           /\ all_results' = Append(all_results, cand.results)
           /\ all_figures' = Append(all_figures, cand.figures)
           /\ chisqs' = Append(chisqs, ChisqOf(cand.results[j]))
    /\ attempted' = Append(attempted, idx + 1)
    /\ idx' = idx + 1
    /\ UNCHANGED <<analyses, sel_pc, ret, storeVars, fmtVars, updVars, circVars, rbVars, rbcVars, fbVars, runVars, ctxVars>>

\* if not chisqs: return [], []
ReturnEmptyUnchecked ==
    /\ sel_pc = "loop" /\ idx = Len(analyses)
    /\ chisqs = <<>>
    /\ sel_pc' = "raised"
    /\ ret' = Returned(<<>>, <<>>, EmptyArgminError)
    /\ UNCHANGED <<analyses, idx, all_results, all_figures, chisqs, attempted,
                   storeVars, fmtVars, updVars, circVars, rbVars, rbcVars, fbVars, runVars, ctxVars>>

ReturnEmpty ==
    /\ sel_pc = "loop" /\ idx = Len(analyses)
    /\ chisqs = <<>>
    /\ sel_pc' = "returned"
    /\ ret' = Returned(<<>>, <<>>, NoError)
    /\ UNCHANGED <<analyses, idx, all_results, all_figures, chisqs, attempted,
                   storeVars, fmtVars, updVars, circVars, rbVars, rbcVars, fbVars, runVars, ctxVars>>

\* best_analysis_index = np.nanargmin(chisqs); return the pair at that index
ReturnBest ==
    /\ sel_pc = "loop" /\ idx = Len(analyses)
    /\ chisqs # <<>>
    /\ LET best_analysis_index == NanArgMin(chisqs)
       IN  /\ best_analysis_index # 0
           /\ sel_pc' = "returned"
           /\ ret' = Returned(all_results[best_analysis_index],
                              all_figures[best_analysis_index], NoError)
    /\ UNCHANGED <<analyses, idx, all_results, all_figures, chisqs, attempted,
                   storeVars, fmtVars, updVars, circVars, rbVars, rbcVars, fbVars, runVars, ctxVars>>

\* np.nanargmin(chisqs) when every kept chi-square is NaN
NanArgMinRaises ==
    /\ sel_pc = "loop" /\ idx = Len(analyses)
    /\ chisqs # <<>>
    /\ NanArgMin(chisqs) = 0
    /\ sel_pc' = "raised"
    /\ ret' = Returned(<<>>, <<>>, AllNaNError)
    /\ UNCHANGED <<analyses, idx, all_results, all_figures, chisqs, attempted,
                   storeVars, fmtVars, updVars, circVars, rbVars, rbcVars, fbVars, runVars, ctxVars>>

SelNext ==
    \/ CandidateRaises
    \/ CandidateWithoutParams
    \/ CandidateKept
    \/ ReturnEmpty
    \/ ReturnBest
    \/ NanArgMinRaises

(***************************************************************************)
(* format_params.                                                          *)
(*                                                                         *)
(* A float is a binary number of at most MantBits significant bits (53 in  *)
(* CPython).  Every float that occurs lies on the grid of multiples of     *)
(* 2^-FracBits and is held as its integer count of grid units, so all      *)
(* arithmetic is exact.                                                    *)
(***************************************************************************)
RECURSIVE Pow(_, _)
Pow(b, e) == IF e = 0 THEN 1 ELSE b * Pow(b, e - 1)

RECURSIVE BitLength(_)
BitLength(n) == IF n = 0 THEN 0 ELSE 1 + BitLength(n \div 2)

FracBits == MantBits + 4 * MaxDigit
Unit == Pow(2, FracBits)

\* spacing of the floats around a magnitude of n grid units
Ulp(n) ==
    LET len == BitLength(n)
    IN  IF len <= MantBits THEN 1 ELSE Pow(2, len - MantBits)

IsFloat(n) == Abs(n) % Ulp(Abs(n)) = 0

Floats == {n \in (-MaxMag * Unit)..(MaxMag * Unit) : IsFloat(n)}

Sign(n) == IF n < 0 THEN -1 ELSE 1

\* decimal.getcontext().rounding = decimal.ROUND_DOWN, run at import
ImportRoundingDefault == "ROUND_HALF_EVEN"

ImportRounding == "ROUND_DOWN"

\* round(decimal.Decimal(value), digit): Decimal(value) is the exact value of
\* the float; round quantizes it to `digit` places in the context's rounding
\* mode.  The result is k, standing for the decimal k / 10^digit.
RoundDecimal(value, digit, mode) ==
    LET num == Abs(value) * Pow(10, digit)
        q == num \div Unit
        r == num % Unit
    IN  IF mode = "ROUND_DOWN" THEN Sign(value) * q
        ELSE IF 2 * r > Unit \/ (2 * r = Unit /\ q % 2 = 1)
             THEN Sign(value) * (q + 1)
             ELSE Sign(value) * q

\* float(round_val): the float nearest to k / 10^digit, ties to even
FloatOf(k, digit) ==
    LET den == Pow(10, digit)
        num == Abs(k) * Unit
        u == Ulp(num \div den)
        m == num \div (den * u)
        r == num % (den * u)
        up == 2 * r > den * u \/ (2 * r = den * u /\ m % 2 = 1)
    IN  Sign(k) * (IF up THEN m + 1 ELSE m) * u

FormatParams(value, digit, mode) == FloatOf(RoundDecimal(value, digit, mode), digit)

FmtInit ==
    /\ rounding = ImportRounding
    /\ fmt_value \in Floats
    /\ fmt_digit \in 0..MaxDigit
    /\ fmt_pc = "start"
    /\ fmt_out = 0
    /\ fmt_out2 = 0

FmtIdle ==
    /\ rounding = ImportRounding
    /\ fmt_value = 0
    /\ fmt_digit = 0
    /\ fmt_pc = "start"
    /\ fmt_out = 0
    /\ fmt_out2 = 0

\* format_params(value, digit)
FormatOnce ==
    /\ fmt_pc = "start"
    /\ fmt_out' = FormatParams(fmt_value, fmt_digit, rounding)
    /\ fmt_pc' = "once"
    /\ UNCHANGED <<rounding, fmt_value, fmt_digit, fmt_out2, storeVars, selVars, updVars, circVars, rbVars, rbcVars, fbVars, runVars, ctxVars>>

\* format_params(format_params(value, digit), digit)
FormatAgain ==
    /\ fmt_pc = "once"
    /\ fmt_out2' = FormatParams(fmt_out, fmt_digit, rounding)
    /\ fmt_pc' = "twice"
    /\ UNCHANGED <<rounding, fmt_value, fmt_digit, fmt_out, storeVars, selVars, updVars, circVars, rbVars, rbcVars, fbVars, runVars, ctxVars>>

FmtNext ==
    \/ FormatOnce
    \/ FormatAgain

(***************************************************************************)
(* Calibration updates of the other experiments.  Each handler is          *)
(* update_calibrations(experiment_data) of one experiment class; it reads  *)
(* the fit results of its own experiment data and adds parameter values    *)
(* stamped with the time of that data.  Amplitude angles are in units of   *)
(* pi/2, frequencies in MHz.                                               *)
(***************************************************************************)
KeyAmpX == <<"amp", 0, "x12">>
KeyBetaX == <<"β", 0, "x12">>
KeyBetaSX == <<"β", 0, "sx12">>
UpdKeys == Keys \cup {KeyAmpX, KeyBetaX, KeyBetaSX}

\* values present before the first update: those of from_backend for the
\* anharmonicity and the drive frequency, and a first value of every gate
\* parameter
InitialValue(k) ==
    IF k = KeyAlpha THEN BackendAnharmonicity
    ELSE IF k = KeyDriveFreq THEN BackendDriveFreq
    ELSE IF k = KeyAmpX THEN <<2, 5>>
    ELSE IF k = KeyAmpSX THEN <<1, 5>>
    ELSE <<0, 1>>

UpdStore(with_values) ==
    [k \in UpdKeys |-> IF with_values THEN <<ParameterValue(InitialValue(k), 0)>> ELSE <<>>]

NoData == [kind |-> "none", t |-> 0, value |-> <<0, 1>>, value2 |-> <<0, 1>>, two |-> FALSE]

ExperimentData(kind, t, value) ==
    [kind |-> kind, t |-> t, value |-> value, value2 |-> <<0, 1>>, two |-> FALSE]

\* experiment data whose selected model reported the two resonances Δα0, Δα1
TwoResonanceData(kind, t, delta_0, delta_1) ==
    [kind |-> kind, t |-> t, value |-> delta_0, value2 |-> delta_1, two |-> TRUE]

\* the fit results an analysed experiment of each class can hold
DataOf(kind, t) ==
    IF kind \in {"FineEFSXAmplitudeCal", "FineEFXAmplitudeCal"}
    THEN {ExperimentData(kind, t, e) : e \in AngleErrors}
    ELSE IF kind = "RoughEFAmplitudeCal"
    THEN {ExperimentData(kind, t, omega) : omega \in {<<3, 1>>, <<5, 2>>}}
    ELSE IF kind = "RoughEFFrequencyCal"
    THEN {ExperimentData(kind, t, <<3, 1>>)}
    ELSE IF kind = "NarrowBandEFSpectroscopyCal"
    THEN {ExperimentData(kind, t, <<3, 1>>), TwoResonanceData(kind, t, <<2, 1>>, <<5, 1>>)}
    ELSE IF kind = "RoughEFXDragCal"
    THEN {ExperimentData(kind, t, <<1, 2>>)}
    ELSE {ExperimentData(kind, t, <<-3, 4>>)}

ExperimentKinds ==
    {"FineEFSXAmplitudeCal", "FineEFXAmplitudeCal", "RoughEFAmplitudeCal",
     "RoughEFFrequencyCal", "NarrowBandEFSpectroscopyCal", "RoughEFXDragCal",
     "RoughEFSXDragCal"}

UpdInit ==
    /\ now = 0
    /\ \E with_values \in BOOLEAN : params = UpdStore(with_values)
    /\ nadded = 0
    /\ built = NotBuilt
    /\ run_pc = "idle"
    /\ exp_data = NoData

UpdIdle == exp_data = NoData

\* an experiment has been run and analysed; its data carries the time of the run
ExperimentAnalysed ==
    /\ run_pc \in {"idle", "failed"}
    /\ nadded < MaxEntries
    /\ \E kind \in ExperimentKinds : \E t \in 0..now : exp_data' \in DataOf(kind, t)
    /\ run_pc' = "analysed"
    /\ UNCHANGED <<params, now, nadded, built, selVars, fmtVars, circVars, rbVars, rbcVars, fbVars, runVars, ctxVars>>

FineXKeySX == KeyAmpSX

\* get_parameter_value(param="amp", qubits=self.physical_qubits, schedule="x12")
FineXKey == KeyAmpX

TargetAngleX == <<2, 1>>

\* FineEFSXAmplitudeCal.update_calibrations(experiment_data)
FineEFSXAmplitudeCalUpdate ==
    /\ run_pc = "analysed" /\ exp_data.kind = "FineEFSXAmplitudeCal"
    /\ LET current_amp == GetCurrent(params, KeyAmpSX, now)
       IN  IF current_amp = Missing
           THEN run_pc' = "failed" /\ UNCHANGED <<params, nadded>>
           ELSE /\ params' = UpdaterAddParameterValue(params, KeyAmpSX,
                      ParameterValue(FineAmp(current_amp, TargetAngleSX, exp_data.value),
                                     exp_data.t))
                /\ nadded' = nadded + 1
                /\ run_pc' = "idle"
    /\ UNCHANGED <<now, built, exp_data, selVars, fmtVars, circVars, rbVars, rbcVars, fbVars, runVars, ctxVars>>

\* FineEFXAmplitudeCal.update_calibrations(experiment_data)
FineEFXAmplitudeCalUpdate ==
    /\ run_pc = "analysed" /\ exp_data.kind = "FineEFXAmplitudeCal"
    /\ LET current_amp == GetCurrent(params, FineXKey, now)
       IN  IF current_amp = Missing
           THEN run_pc' = "failed" /\ UNCHANGED <<params, nadded>>
           ELSE /\ params' = UpdaterAddParameterValue(params, KeyAmpX,
                      ParameterValue(FineAmp(current_amp, TargetAngleX, exp_data.value),
                                     exp_data.t))
                /\ nadded' = nadded + 1
                /\ run_pc' = "idle"
    /\ UNCHANGED <<now, built, exp_data, selVars, fmtVars, circVars, rbVars, rbcVars, fbVars, runVars, ctxVars>>

\* np.round(x, decimals): the nearest multiple of 10^-decimals, ties to even
NpRound(x, decimals) ==
    LET scale == Pow(10, decimals)
        num == Abs(x[1]) * scale
        q == num \div x[2]
        r == num % x[2]
        up == 2 * r > x[2] \/ (2 * r = x[2] /\ q % 2 = 1)
    IN  Rat(Sign(x[1]) * (IF up THEN q + 1 ELSE q), scale)

RoundDecimals == 8

\* rate = 2 * np.pi * Ω12; pi_amp = np.round(np.pi / rate, decimals=8)
PiAmp(omega) == NpRound(RDiv(<<1, 1>>, RMul(<<2, 1>>, omega)), RoundDecimals)

HalfPiAmpUnhalved(pi_amp) == pi_amp

\* value=pi_amp / 2
HalfPiAmp(pi_amp) == RDiv(pi_amp, <<2, 1>>)

\* RoughEFAmplitudeCal.update_calibrations(experiment_data)
RoughEFAmplitudeCalUpdate ==
    /\ run_pc = "analysed" /\ exp_data.kind = "RoughEFAmplitudeCal"
    /\ LET pi_amp == PiAmp(exp_data.value)
           first == UpdaterAddParameterValue(params, KeyAmpX,
                       ParameterValue(pi_amp, exp_data.t))
       IN  params' = UpdaterAddParameterValue(first, KeyAmpSX,
                        ParameterValue(HalfPiAmp(pi_amp), exp_data.t))
    /\ nadded' = nadded + 2
    /\ run_pc' = "idle"
    /\ UNCHANGED <<now, built, exp_data, selVars, fmtVars, circVars, rbVars, rbcVars, fbVars, runVars, ctxVars>>

\* RoughEFFrequencyCal.update_calibrations(experiment_data)
RoughEFFrequencyCalUpdate ==
    /\ run_pc = "analysed" /\ exp_data.kind = "RoughEFFrequencyCal"
    /\ LET delta == exp_data.value
           anh == GetCurrent(params, KeyAlpha, now)
       IN  IF anh = Missing
           THEN run_pc' = "failed" /\ UNCHANGED <<params, nadded>>
           ELSE /\ params' = UpdaterAddParameterValue(params, KeyAlpha,
                      ParameterValue(RAdd(anh, delta), exp_data.t))
                /\ nadded' = nadded + 1
                /\ run_pc' = "idle"
    /\ UNCHANGED <<now, built, exp_data, selVars, fmtVars, circVars, rbVars, rbcVars, fbVars, runVars, ctxVars>>

NarrowBandDeltaFirst(data) == data.value

\* try: delta = 0.5 * (Δα0 + Δα1)  except ExperimentEntryNotFound: delta = Δα
NarrowBandDelta(data) ==
    IF data.two THEN RMul(<<1, 2>>, RAdd(data.value, data.value2)) ELSE data.value

\* NarrowBandEFSpectroscopyCal.update_calibrations(experiment_data)
NarrowBandEFSpectroscopyCalUpdate ==
    /\ run_pc = "analysed" /\ exp_data.kind = "NarrowBandEFSpectroscopyCal"
    /\ LET delta == NarrowBandDelta(exp_data)
           anh == GetCurrent(params, KeyAlpha, now)
       IN  IF anh = Missing
           THEN run_pc' = "failed" /\ UNCHANGED <<params, nadded>>
           ELSE /\ params' = UpdaterAddParameterValue(params, KeyAlpha,
                      ParameterValue(RAdd(anh, delta), exp_data.t))
                /\ nadded' = nadded + 1
                /\ run_pc' = "idle"
    /\ UNCHANGED <<now, built, exp_data, selVars, fmtVars, circVars, rbVars, rbcVars, fbVars, runVars, ctxVars>>

\* param="β", schedule="x12"
DragXKey == KeyBetaX

DragSXKeyX == KeyBetaX

\* param="β", schedule="sx12"
DragSXKey == KeyBetaSX

\* RoughEFXDragCal.update_calibrations(experiment_data)
RoughEFXDragCalUpdate ==
    /\ run_pc = "analysed" /\ exp_data.kind = "RoughEFXDragCal"
    /\ LET beta == exp_data.value
       IN  params' = UpdaterAddParameterValue(params, DragXKey,
                        ParameterValue(beta, exp_data.t))
    /\ nadded' = nadded + 1
    /\ run_pc' = "idle"
    /\ UNCHANGED <<now, built, exp_data, selVars, fmtVars, circVars, rbVars, rbcVars, fbVars, runVars, ctxVars>>

\* RoughEFSXDragCal.update_calibrations(experiment_data)
RoughEFSXDragCalUpdate ==
    /\ run_pc = "analysed" /\ exp_data.kind = "RoughEFSXDragCal"
    /\ LET beta == exp_data.value
       IN  params' = UpdaterAddParameterValue(params, DragSXKey,
                        ParameterValue(beta, exp_data.t))
    /\ nadded' = nadded + 1
    /\ run_pc' = "idle"
    /\ UNCHANGED <<now, built, exp_data, selVars, fmtVars, circVars, rbVars, rbcVars, fbVars, runVars, ctxVars>>

UpdNext ==
    \/ ExperimentAnalysed
    \/ FineEFSXAmplitudeCalUpdate
    \/ FineEFXAmplitudeCalUpdate
    \/ RoughEFAmplitudeCalUpdate
    \/ RoughEFFrequencyCalUpdate
    \/ NarrowBandEFSpectroscopyCalUpdate
    \/ RoughEFXDragCalUpdate
    \/ RoughEFSXDragCalUpdate
    \/ Tick

(***************************************************************************)
(* Randomized benchmarking of the full single-qubit Clifford group.        *)
(*                                                                         *)
(* Matrix entries are numbers a + b z + c z^2 + d z^3 with integer         *)
(* a, b, c, d and z = exp(i pi / 4), written <<a, b, c, d>>; z^4 = -1.     *)
(* A matrix <<m00, m01, m10, m11>> stands for every positive multiple of   *)
(* itself: det(mat) ** (-0.5) * mat does not depend on the scale.  Angles  *)
(* are integers, in units of pi / 4.                                       *)
(***************************************************************************)
CZero == <<0, 0, 0, 0>>
COne == <<1, 0, 0, 0>>

CNeg(x) == [i \in 1..4 |-> -x[i]]
CAdd(x, y) == [i \in 1..4 |-> x[i] + y[i]]
CSub(x, y) == CAdd(x, CNeg(y))

CMul(x, y) ==
    <<x[1] * y[1] - x[2] * y[4] - x[3] * y[3] - x[4] * y[2],
      x[1] * y[2] + x[2] * y[1] - x[3] * y[4] - x[4] * y[3],
      x[1] * y[3] + x[2] * y[2] + x[3] * y[1] - x[4] * y[4],
      x[1] * y[4] + x[2] * y[3] + x[3] * y[2] + x[4] * y[1]>>

\* the complex conjugate: conj(z) = -z^3
CConj(x) == <<x[1], -x[4], -x[3], -x[2]>>

\* exp(i k pi / 4)
Zeta(k) ==
    [i \in 1..4 |-> IF i = (k % 4) + 1 THEN (IF k % 8 < 4 THEN 1 ELSE -1) ELSE 0]

\* x is real and positive: x = a + b sqrt(2) > 0, with sqrt(2) = z - z^3
IsPositiveReal(x) ==
    LET a == x[1]
        b == x[2]
    IN  /\ x[3] = 0
        /\ x[4] = -b
        /\ \/ a > 0 /\ b >= 0
           \/ a >= 0 /\ b > 0
           \/ a > 0 /\ b < 0 /\ a * a > 2 * b * b
           \/ a < 0 /\ b > 0 /\ 2 * b * b > a * a

\* an angle brought into (-pi, pi]
Principal(k) == IF k % 8 > 4 THEN (k % 8) - 8 ELSE k % 8

\* cmath.phase(x) for x # 0
Phase(x) == Principal(CHOOSE k \in 0..7 : IsPositiveReal(CMul(x, Zeta(8 - k))))

\* abs(x) ** 2
AbsSquared(x) == CMul(x, CConj(x))

Identity == <<COne, CZero, CZero, COne>>

MMul(A, B) ==
    <<CAdd(CMul(A[1], B[1]), CMul(A[2], B[3])), CAdd(CMul(A[1], B[2]), CMul(A[2], B[4])),
      CAdd(CMul(A[3], B[1]), CMul(A[4], B[3])), CAdd(CMul(A[3], B[2]), CMul(A[4], B[4]))>>

\* numpy.linalg.det
Det(A) == CSub(CMul(A[1], A[4]), CMul(A[2], A[3]))

MAdjoint(A) == <<CConj(A[1]), CConj(A[3]), CConj(A[2]), CConj(A[4])>>

\* A = c B for a complex number c # 0 (A and B are not zero)
Proportional(A, B) ==
    \A i \in 1..4 : \A j \in 1..4 : CMul(A[i], B[j]) = CMul(A[j], B[i])

PauliX == <<CZero, COne, COne, CZero>>
PauliY == <<CZero, Zeta(6), Zeta(2), CZero>>
PauliZ == <<COne, CZero, CZero, Zeta(4)>>
HGate == <<COne, COne, COne, Zeta(4)>>
SGate == <<COne, CZero, CZero, Zeta(2)>>

\* the 24 single-qubit Clifford elements: a Pauli times one of I, H, S, HS,
\* SH, HSH
CliffordGroup ==
    {MMul(P, V) : P \in {Identity, PauliX, PauliY, PauliZ},
                  V \in {Identity, HGate, SGate, MMul(HGate, SGate), MMul(SGate, HGate),
                         MMul(HGate, MMul(SGate, HGate))}}

\* a Clifford object carries no global phase: the element of the group that
\* has the matrix M up to a factor
CliffordOf(M) == CHOOSE g \in CliffordGroup : Proportional(g, M)

\* the element with the matrix b . a, for all elements a and b
ProductTable == [a \in CliffordGroup |-> [b \in CliffordGroup |-> CliffordOf(MMul(b, a))]]

ComposeFront(a, b) == ProductTable[b][a]

\* a.compose(b): a first, then b; the matrix is b . a
Compose(a, b) == ProductTable[a][b]

AdjointTable == [a \in CliffordGroup |-> CliffordOf(MAdjoint(a))]

\* a.adjoint()
Adjoint(a) == AdjointTable[a]

\* the values of det(mat) ** (-0.5): exp(-i Arg(det) / 2) with Arg the principal
\* argument; at det on the negative real axis the sign of the zero or rounded
\* imaginary part decides between Arg = pi and Arg = -pi
DetPhases(mat) ==
    LET a == Phase(Det(mat))
    IN  IF a = 4 THEN {-2, 2} ELSE {-(a \div 2)}

\* cmath.phase of a zero entry: atan2 of signed zeros, 0 or +-pi
ZeroPhases == {0, 4}

\* nothing yielded yet
NoYield == [yielded |-> FALSE, theta |-> 0, phi |-> 0, lam |-> 0]

\* 2 * math.atan2(abs(su_mat[1, 0]), abs(su_mat[0, 0])): 0 when the first is
\* zero, pi when the second is, pi / 2 when they are equal, as they are in a
\* Clifford matrix without zero entries
Theta(mat) ==
    IF mat[3] = CZero THEN 0
    ELSE IF mat[1] = CZero THEN 4
    ELSE 2

\* cmath.phase(su_mat[r, c]) with su_mat = det(mat) ** (-0.5) * mat
SuPhase(x, d, z) == IF x = CZero THEN z ELSE Principal(Phase(x) + d)

\* _to_parameters(elm), for the value d of the phase of det(mat) ** (-0.5) and
\* the values z1, z2 that cmath.phase gives for a zero entry
ToParameters(elm, d, z1, z2) ==
    LET mat == elm
        phiplambda2 == SuPhase(mat[4], d, z1)
        phimlambda2 == SuPhase(mat[3], d, z2)
    IN  [yielded |-> TRUE,
         theta |-> Theta(mat),
         phi |-> phiplambda2 + phimlambda2,
         lam |-> phiplambda2 - phimlambda2]

ParametersTable ==
    [elm \in CliffordGroup |->
        {ToParameters(elm, d, z1, z2) :
            d \in DetPhases(elm), z1 \in ZeroPhases, z2 \in ZeroPhases}]

\* the parameter triples _to_parameters(elm) can return
ParametersOf(elm) == ParametersTable[elm]

RZ12Gate(phi) == [name |-> "rz12", phi |-> phi]
SX12Gate == [name |-> "sx12", phi |-> 0]

SequenceToInstructionsNoShift(p) ==
    <<RZ12Gate(p.lam), SX12Gate, RZ12Gate(p.theta), SX12Gate, RZ12Gate(p.phi)>>

\* _sequence_to_instructions(theta, phi, lam); math.pi is 4
SequenceToInstructions(p) ==
    <<RZ12Gate(p.lam), SX12Gate, RZ12Gate(p.theta + 4), SX12Gate, RZ12Gate(p.phi - 4)>>

\* the matrices of the gates on the 1-2 subspace: rz12 is a rotation about Z
\* by phi, sx12 is Sqrt(X)
GateMatrix(inst) ==
    IF inst.name = "rz12" THEN <<COne, CZero, CZero, Zeta(inst.phi)>>
    ELSE <<Zeta(1), Zeta(7), Zeta(7), Zeta(1)>>

\* the matrix of a list of instructions or elements applied in list order
RECURSIVE InOrder(_)
InOrder(ms) ==
    IF ms = <<>> THEN Identity
    ELSE MMul(InOrder(Tail(ms)), Head(ms))

MaxLength == 2

RbInit ==
    /\ rb_length \in 0..MaxLength
    /\ rb_pc = "loop"
    /\ rb_composed = Identity
    /\ rb_emitted = <<>>
    /\ rb_yield = NoYield

EmitsAdjointAlways(length) == TRUE

\* if length > 0:
EmitsAdjoint(length) == length > 0

\* one iteration of: for _ in range(length)
SampleElement ==
    /\ rb_pc = "loop"
    /\ Len(rb_emitted) < rb_length
    /\ \E elm \in CliffordGroup :
          /\ rb_composed' = Compose(rb_composed, elm)
          /\ rb_emitted' = Append(rb_emitted, elm)
          /\ rb_yield' \in ParametersOf(elm)
    /\ UNCHANGED <<rb_length, rb_pc, storeVars, selVars, fmtVars, updVars, circVars, rbcVars, fbVars, runVars, ctxVars>>

\* yield self._to_parameters(composed.adjoint())
YieldAdjoint ==
    /\ rb_pc = "loop"
    /\ Len(rb_emitted) = rb_length
    /\ EmitsAdjoint(rb_length)
    /\ rb_emitted' = Append(rb_emitted, Adjoint(rb_composed))
    /\ rb_yield' \in ParametersOf(Adjoint(rb_composed))
    /\ rb_pc' = "done"
    /\ UNCHANGED <<rb_length, rb_composed, storeVars, selVars, fmtVars, updVars, circVars, rbcVars, fbVars, runVars, ctxVars>>

\* the generator ends without the closing step
EndWithoutAdjoint ==
    /\ rb_pc = "loop"
    /\ Len(rb_emitted) = rb_length
    /\ ~EmitsAdjoint(rb_length)
    /\ rb_pc' = "done"
    /\ UNCHANGED <<rb_length, rb_composed, rb_emitted, rb_yield,
                   storeVars, selVars, fmtVars, updVars, circVars, rbcVars, fbVars, runVars, ctxVars>>

RbNext ==
    \/ SampleElement
    \/ YieldAdjoint
    \/ EndWithoutAdjoint

(***************************************************************************)
(* BaseEFRB1Q.circuits() for the two benchmarking experiments.             *)
(*                                                                         *)
(* The generator made by np.random.default_rng(seed) is a state in         *)
(* RngStates; a draw reads the state and advances it.  The polar angles    *)
(* are multiples of pi / 4 between -pi and pi.                             *)
(***************************************************************************)
RngStates == 0..80

\* the state after one draw: a full cycle through RngStates
Advance(s) == (4 * s + 1) % 81

\* the generator the call draws from, given the seed option and the state of
\* numpy's global generator
SeedRngGlobal(seed, global) == global

\* rng = np.random.default_rng(seed=opt.seed)
SeedRng(seed, global) == seed % 81

Paulis == <<Identity, PauliX, PauliY, PauliZ>>
Cosets == <<Identity, HGate, SGate, MMul(HGate, SGate), MMul(SGate, HGate),
            MMul(HGate, MMul(SGate, HGate))>>

\* random_clifford(1, rng): the element drawn in generator state s
RandomClifford(s) == MMul(Paulis[(s % 4) + 1], Cosets[((s \div 4) % 6) + 1])

\* rng.uniform(-np.pi, np.pi, 2): the two angles drawn in generator state s
Uniform2(s) == <<(s % 9) - 4, ((s \div 9) % 9) - 4>>

\* _to_parameters is a function of the element
ParametersOnce(elm) == CHOOSE p \in ParametersOf(elm) : TRUE

XGate == [name |-> "x", phi |-> 0]
X12Gate == [name |-> "x12", phi |-> 0]
Measure == [name |-> "measure", phi |-> 0]
Barrier == [name |-> "barrier", phi |-> 0]

PolarInstructionsUnnegated(angle1, angle2) ==
    <<RZ12Gate(angle1), X12Gate, RZ12Gate(angle2 - angle1), X12Gate, RZ12Gate(angle2)>>

\* EFPolarRB1Q._sequence_to_instructions(angle1, angle2)
PolarInstructions(angle1, angle2) ==
    <<RZ12Gate(angle1), X12Gate, RZ12Gate(angle2 - angle1), X12Gate, RZ12Gate(-angle2)>>

StepWithoutBarrier(circ, insts) == circ \o insts

\* for inst in ...: rb_circ._append(inst, ...), then rb_circ.barrier()
StepWithBarrier(circ, insts) == circ \o insts \o <<Barrier>>

PolarRangePlusOne(length) == length + 1

\* EFPolarRB1Q._generate_sequence: for _ in range(length)
PolarRange(length) == length

MaxSamples == 2

RbOptions(kind, seed, lengths, num_samples) ==
    [kind |-> kind, seed |-> seed, lengths |-> lengths, num_samples |-> num_samples]

NoRbOptions == RbOptions("none", 0, <<>>, 0)

RbOptionSets ==
    {RbOptions(k, s, l, n) :
        k \in {"EFStandardRB1Q", "EFPolarRB1Q"},
        s \in {x \in RngStates : x % 8 = 0},
        l \in {<<len>> : len \in 0..MaxLength} \cup {<<0, MaxLength>>},
        n \in 1..MaxSamples}

RbcInit ==
    /\ rbc_opt \in RbOptionSets
    /\ rbc_pc = "start"
    /\ rbc_call = 1
    /\ rng = 0
    /\ np_random = 0
    /\ rbc_sample = 0
    /\ rbc_len_i = 1
    /\ rbc_n = 0
    /\ rbc_composed = Identity
    /\ rb_circ = <<>>
    /\ exp_circs = <<>>
    /\ first_circs = <<>>

RbcIdle ==
    /\ rbc_opt = NoRbOptions
    /\ rbc_pc = "start"
    /\ rbc_call = 1
    /\ rng = 0
    /\ np_random = 0
    /\ rbc_sample = 0
    /\ rbc_len_i = 1
    /\ rbc_n = 0
    /\ rbc_composed = Identity
    /\ rb_circ = <<>>
    /\ exp_circs = <<>>
    /\ first_circs = <<>>

RbcOthers == <<storeVars, selVars, fmtVars, updVars, circVars, rbVars>>

\* the length of the circuit under construction
RbcLength == rbc_opt.lengths[rbc_len_i]

\* circuits(), lines 122-134: the generator is made from the seed
RbCircuitsCall ==
    /\ rbc_pc = "start" /\ rbc_opt.kind # "none"
    /\ rng' = SeedRng(rbc_opt.seed, np_random)
    /\ exp_circs' = <<>>
    /\ rbc_sample' = 0
    /\ rbc_len_i' = 1
    /\ rbc_pc' = "next"
    /\ UNCHANGED <<rbc_opt, rbc_call, np_random, rbc_n, rbc_composed, rb_circ, first_circs,
                   RbcOthers, fbVars, runVars, ctxVars>>

\* lines 137-142: a new circuit with its metadata and the leading X gate;
\* _generate_sequence starts with composed the identity
BeginCircuit ==
    /\ rbc_pc = "next" /\ rbc_sample < rbc_opt.num_samples
    /\ rb_circ' = <<XGate>>
    /\ rbc_composed' = Identity
    /\ rbc_n' = 0
    /\ rbc_pc' = "steps"
    /\ UNCHANGED <<rbc_opt, rbc_call, rng, np_random, rbc_sample, rbc_len_i, exp_circs,
                   first_circs, RbcOthers, fbVars, runVars, ctxVars>>

\* one sampled element of EFStandardRB1Q._generate_sequence, decomposed and
\* appended
StandardStep ==
    /\ rbc_pc = "steps" /\ rbc_opt.kind = "EFStandardRB1Q"
    /\ rbc_n < RbcLength
    /\ LET elm == CliffordOf(RandomClifford(rng))
       IN  /\ rbc_composed' = Compose(rbc_composed, elm)
           /\ rb_circ' = StepWithBarrier(rb_circ, SequenceToInstructions(ParametersOnce(elm)))
    /\ rng' = Advance(rng)
    /\ rbc_n' = rbc_n + 1
    /\ UNCHANGED <<rbc_opt, rbc_call, rbc_pc, np_random, rbc_sample, rbc_len_i, exp_circs,
                   first_circs, RbcOthers, fbVars, runVars, ctxVars>>

\* the closing step of EFStandardRB1Q._generate_sequence
StandardClose ==
    /\ rbc_pc = "steps" /\ rbc_opt.kind = "EFStandardRB1Q"
    /\ rbc_n = RbcLength /\ EmitsAdjoint(RbcLength)
    /\ rb_circ' = StepWithBarrier(rb_circ,
                      SequenceToInstructions(ParametersOnce(Adjoint(rbc_composed))))
    /\ rbc_n' = rbc_n + 1
    /\ UNCHANGED <<rbc_opt, rbc_call, rbc_pc, rng, np_random, rbc_sample, rbc_len_i,
                   rbc_composed, exp_circs, first_circs, RbcOthers, fbVars, runVars, ctxVars>>

\* one step of EFPolarRB1Q._generate_sequence, translated and appended
PolarStep ==
    /\ rbc_pc = "steps" /\ rbc_opt.kind = "EFPolarRB1Q"
    /\ rbc_n < PolarRange(RbcLength)
    /\ rb_circ' = StepWithBarrier(rb_circ, PolarInstructions(Uniform2(rng)[1], Uniform2(rng)[2]))
    /\ rng' = Advance(rng)
    /\ rbc_n' = rbc_n + 1
    /\ UNCHANGED <<rbc_opt, rbc_call, rbc_pc, np_random, rbc_sample, rbc_len_i, rbc_composed,
                   exp_circs, first_circs, RbcOthers, fbVars, runVars, ctxVars>>

\* the generator of the circuit under construction is exhausted
Exhausted ==
    IF rbc_opt.kind = "EFPolarRB1Q" THEN rbc_n = PolarRange(RbcLength)
    ELSE IF EmitsAdjoint(RbcLength) THEN rbc_n = RbcLength + 1
    ELSE rbc_n = RbcLength

\* lines 147-149: trailing X gate, measurement, exp_circs.append(rb_circ)
EndCircuit ==
    /\ rbc_pc = "steps" /\ Exhausted
    /\ exp_circs' = Append(exp_circs,
          [xval |-> RbcLength, sample |-> rbc_sample,
           data |-> rb_circ \o <<XGate, Measure>>])
    /\ IF rbc_len_i < Len(rbc_opt.lengths)
       THEN rbc_len_i' = rbc_len_i + 1 /\ UNCHANGED rbc_sample
       ELSE rbc_len_i' = 1 /\ rbc_sample' = rbc_sample + 1
    /\ rb_circ' = <<>>
    /\ rbc_pc' = "next"
    /\ UNCHANGED <<rbc_opt, rbc_call, rng, np_random, rbc_n, rbc_composed, first_circs,
                   RbcOthers, fbVars, runVars, ctxVars>>

\* return exp_circs
RbCircuitsReturn ==
    /\ rbc_pc = "next" /\ rbc_sample = rbc_opt.num_samples
    /\ rbc_pc' = "returned"
    /\ first_circs' = IF rbc_call = 1 THEN exp_circs ELSE first_circs
    /\ UNCHANGED <<rbc_opt, rbc_call, rng, np_random, rbc_sample, rbc_len_i, rbc_n,
                   rbc_composed, rb_circ, exp_circs, RbcOthers, fbVars, runVars, ctxVars>>

\* other code draws from numpy's global generator between the two calls
GlobalStateDrawn ==
    /\ rbc_pc = "returned" /\ rbc_call = 1 /\ np_random = 0
    /\ np_random' = Advance(np_random)
    /\ UNCHANGED <<rbc_opt, rbc_pc, rbc_call, rng, rbc_sample, rbc_len_i, rbc_n, rbc_composed,
                   rb_circ, exp_circs, first_circs, RbcOthers, fbVars, runVars, ctxVars>>

\* circuits() is called again with the same options
RbCircuitsCalledAgain ==
    /\ rbc_pc = "returned" /\ rbc_call = 1
    /\ rbc_call' = 2
    /\ rbc_pc' = "start"
    /\ UNCHANGED <<rbc_opt, rng, np_random, rbc_sample, rbc_len_i, rbc_n, rbc_composed,
                   rb_circ, exp_circs, first_circs, RbcOthers, fbVars, runVars, ctxVars>>

RbcNext ==
    \/ RbCircuitsCall
    \/ BeginCircuit
    \/ StandardStep
    \/ StandardClose
    \/ PolarStep
    \/ EndCircuit
    \/ RbCircuitsReturn
    \/ GlobalStateDrawn
    \/ RbCircuitsCalledAgain

(***************************************************************************)
(* QutritCalibrations.from_backend, save and load.                         *)
(*                                                                         *)
(* A backend has num_qubits qubits in a line, a coupling map (a set of     *)
(* directed pairs of neighbours, listed in ascending order) and, for some  *)
(* of its pairs, a control channel.  The parameter values of the new store *)
(* are held in params.                                                     *)
(***************************************************************************)
MaxQubits == 3

Qubits(n) == 0..(n - 1)

\* the directed pairs of neighbouring qubits
Edges(n) == {e \in Qubits(n) \X Qubits(n) : e[1] = e[2] + 1 \/ e[2] = e[1] + 1}

Backends ==
    {[num_qubits |-> n, coupling_map |-> cm, with_channel |-> wc, add_defaults |-> d] :
        n \in 1..MaxQubits, cm \in SUBSET Edges(MaxQubits), wc \in SUBSET Edges(MaxQubits),
        d \in BOOLEAN} \cap
    {b \in [num_qubits : 1..MaxQubits, coupling_map : SUBSET Edges(MaxQubits),
            with_channel : SUBSET Edges(MaxQubits), add_defaults : BOOLEAN] :
        b.coupling_map \subseteq Edges(b.num_qubits) /\ b.with_channel \subseteq b.coupling_map}

\* cmap[np.nonzero(cmap[:, 0] == qubit)]
AvailableCmap(b, qubit) == {e \in b.coupling_map : e[1] = qubit}

\* available_cmap[0]: the first row
FirstRow(rows) == CHOOSE e \in rows : \A f \in rows : e[2] <= f[2]

\* the control channel of a pair
ControlChannel(e) == <<"u", e[1], e[2]>>

\* an attribute that was never assigned, and an assigned one
Unset == [assigned |-> FALSE, value |-> <<>>]
Assigned(v) == [assigned |-> TRUE, value |-> v]

NoCals == [class |-> "none", control_channel_map |-> {}, blacklist |-> Unset, rz12 |-> {}]
NoFile == [written |-> FALSE, control_channel_map |-> {}, parameters |-> <<>>]
NoBackend == [num_qubits |-> 0, coupling_map |-> {}, with_channel |-> {}, add_defaults |-> FALSE]

FbInit ==
    /\ fb_backend \in Backends
    /\ fb_pc = "loop"
    /\ fb_qubit = 0
    /\ control_channel_map = {}
    /\ blacklist = <<>>
    /\ fb_warnings = 0
    /\ cals = NoCals
    /\ saved = NoFile
    /\ loaded = NoCals
    /\ loaded_params = <<>>

FbIdle ==
    /\ fb_backend = NoBackend
    /\ fb_pc = "loop"
    /\ fb_qubit = 0
    /\ control_channel_map = {}
    /\ blacklist = <<>>
    /\ fb_warnings = 0
    /\ cals = NoCals
    /\ saved = NoFile
    /\ loaded = NoCals
    /\ loaded_params = <<>>

FbOthers == <<now, nadded, built, run_pc, selVars, fmtVars, updVars, circVars, rbVars, rbcVars,
              runVars, ctxVars>>

\* line 56 with an empty coupling map: cmap has one dimension and cmap[:, 0]
\* raises IndexError outside the try block
EmptyCouplingMapRaises ==
    /\ fb_pc = "loop" /\ fb_qubit < fb_backend.num_qubits
    /\ fb_backend.coupling_map = {}
    /\ fb_pc' = "raised"
    /\ UNCHANGED <<fb_backend, fb_qubit, control_channel_map, blacklist, fb_warnings, cals,
                   saved, loaded, loaded_params, params, FbOthers>>

\* whether the lookup of lines 56-58 finds a channel
HasControlLine(b, qubit) ==
    AvailableCmap(b, qubit) # {} /\ FirstRow(AvailableCmap(b, qubit)) \in b.with_channel

\* lines 52-65, one iteration: the qubit gets its control channel, or a
\* warning and a blacklist entry
FindControlChannel ==
    /\ fb_pc = "loop" /\ fb_qubit < fb_backend.num_qubits
    /\ fb_backend.coupling_map # {}
    /\ IF HasControlLine(fb_backend, fb_qubit)
       THEN /\ control_channel_map' = control_channel_map \cup
                   {<<fb_qubit, ControlChannel(FirstRow(AvailableCmap(fb_backend, fb_qubit)))>>}
            /\ UNCHANGED <<blacklist, fb_warnings>>
       ELSE /\ fb_warnings' = fb_warnings + 1
            /\ blacklist' = Append(blacklist, fb_qubit)
            /\ UNCHANGED control_channel_map
    /\ fb_qubit' = fb_qubit + 1
    /\ UNCHANGED <<fb_backend, fb_pc, cals, saved, loaded, loaded_params, params, FbOthers>>

\* lines 67-101: the store is constructed, gets its blacklist attribute and,
\* with add_parameter_defaults, its default parameter values
Construct ==
    /\ fb_pc = "loop" /\ fb_qubit = fb_backend.num_qubits
    /\ cals' = [class |-> "QutritCalibrations", control_channel_map |-> control_channel_map,
                blacklist |-> Assigned(blacklist), rz12 |-> {}]
    /\ params' = FromBackend(fb_backend.add_defaults, now, 0)
    /\ fb_pc' = "constructed"
    /\ UNCHANGED <<fb_backend, fb_qubit, control_channel_map, blacklist, fb_warnings,
                   saved, loaded, loaded_params, FbOthers>>

\* the qubits self._control_channel_map[(qubit, )] can be read for
Mapped(ccm) == {p[1] : p \in ccm}

\* complete_inst_map, lines 133-138: for qubit in range(num_qubits)
CompleteRange(c, n) == Qubits(n)

\* line 102 and return: complete_inst_map adds rz12 for every qubit in its
\* range; the lookup of a qubit without an entry raises KeyError
CompleteInstMap ==
    /\ fb_pc = "constructed"
    /\ IF CompleteRange(cals, fb_backend.num_qubits) \subseteq Mapped(cals.control_channel_map)
       THEN /\ cals' = [cals EXCEPT !.rz12 = CompleteRange(cals, fb_backend.num_qubits)]
            /\ fb_pc' = "returned"
       ELSE /\ fb_pc' = "raised"
            /\ UNCHANGED cals
    /\ UNCHANGED <<fb_backend, fb_qubit, control_channel_map, blacklist, fb_warnings,
                   saved, loaded, loaded_params, params, FbOthers>>

\* the entries of a store in key order, each with its key: the list a saved
\* file holds
RECURSIVE Flatten(_, _)
Flatten(p, keys) ==
    IF keys = {} THEN <<>>
    ELSE LET k == CHOOSE x \in keys : TRUE
         IN  [i \in 1..Len(p[k]) |-> [key |-> k, entry |-> p[k][i]]] \o Flatten(p, keys \ {k})

\* the histories rebuilt from such a list
Regroup(list, keys) ==
    [k \in keys |->
        LET sel == SelectSeq(list, LAMBDA r : r.key = k)
        IN  [i \in 1..Len(sel) |-> sel[i].entry]]

\* the blacklist attribute of the object Calibrations.load builds: its
\* constructor does not assign it, and load (lines 146-151) only sets the class
LoadedBlacklist(file, c) == Unset

\* Calibrations.save: the parameter values and the control channel map are
\* written out
Save ==
    /\ fb_pc = "returned" /\ ~saved.written
    /\ saved' = [written |-> TRUE, control_channel_map |-> cals.control_channel_map,
                 parameters |-> Flatten(params, DOMAIN params)]
    /\ UNCHANGED <<fb_backend, fb_pc, fb_qubit, control_channel_map, blacklist, fb_warnings,
                   cals, loaded, loaded_params, params, FbOthers>>

\* QutritCalibrations.load(file_path)
Load ==
    /\ saved.written /\ loaded.class = "none"
    /\ loaded' = [class |-> "QutritCalibrations",
                  control_channel_map |-> saved.control_channel_map,
                  blacklist |-> LoadedBlacklist(saved, cals), rz12 |-> {}]
    /\ loaded_params' = Regroup(saved.parameters, DOMAIN params)
    /\ UNCHANGED <<fb_backend, fb_pc, fb_qubit, control_channel_map, blacklist, fb_warnings,
                   cals, saved, params, FbOthers>>

\* the store from_backend returned is in use until it is saved
InUse == fb_pc = "returned" /\ ~saved.written

ValueAddedToNewStore == InUse /\ AddParameterValue

FbNext ==
    \/ EmptyCouplingMapRaises
    \/ FindControlChannel
    \/ Construct
    \/ CompleteInstMap
    \/ ValueAddedToNewStore
    \/ Save
    \/ Load

(***************************************************************************)
(* Values of the circuit-building and benchmarking variables while they    *)
(* are not in use.                                                         *)
(***************************************************************************)
NoOptions == [kind |-> "none", amp_min |-> 0, amp_max |-> 0, amp_num |-> 0, nreps |-> <<>>]

CircIdle ==
    /\ circ_opt = NoOptions
    /\ circ_pc = "start"
    /\ circ_i = 0
    /\ circs = <<>>

RbIdle ==
    /\ rb_length = 0
    /\ rb_pc = "loop"
    /\ rb_composed = Identity
    /\ rb_emitted = <<>>
    /\ rb_yield = NoYield

(***************************************************************************)
(* circuits() of the rough and the fine amplitude experiments.             *)
(*                                                                         *)
(* Sweep values are floats of SweepBits significant bits (53 in CPython),  *)
(* held as integer counts of 2^-SweepFrac; every float that occurs in a    *)
(* sweep between -1/2 and 1/2 lies on that grid.                           *)
(***************************************************************************)
SweepBits == 12
SweepFrac == SweepBits + 5
SweepUnit == Pow(2, SweepFrac)

\* the float nearest to num / den grid units (num >= 0), ties to even
FlRound(num, den) ==
    LET len == BitLength(num \div den)
        u == IF len <= SweepBits THEN 1 ELSE Pow(2, len - SweepBits)
        m == num \div (den * u)
        r == num % (den * u)
        up == 2 * r > den * u \/ (2 * r = den * u /\ m % 2 = 1)
    IN  (IF up THEN m + 1 ELSE m) * u

\* the float of the number x = <<numerator, denominator>>
FloatValue(x) == Sign(x[1]) * FlRound(Abs(x[1]) * SweepUnit, x[2])

\* float addition, and multiplication and division of a float by an integer
FlAdd(a, b) == Sign(a + b) * FlRound(Abs(a + b), 1)
FlTimes(i, a) == Sign(a) * FlRound(i * Abs(a), 1)
FlOver(a, n) == Sign(a) * FlRound(Abs(a), n)

\* np.linspace(start, stop, num)[i], i counted from 0: step = delta / div,
\* y = arange(0, num) * step + start, and the last point is set to stop
Linspace(start, stop, num, i) ==
    LET div == num - 1
        delta == FlAdd(stop, -start)
    IN  IF i = div /\ num > 1 THEN stop
        ELSE IF div > 0 THEN FlAdd(FlTimes(i, FlOver(delta, div)), start)
        ELSE FlAdd(FlTimes(i, delta), start)

DefaultDigit == 3

\* format_params(value, digit) on sweep floats, with the decimal context's
\* rounding mode: float(round(Decimal(value), digit))
SweepRound(value, digit, mode) ==
    LET num == Abs(value) * Pow(10, digit)
        q == num \div SweepUnit
        r == num % SweepUnit
        k == IF mode = "ROUND_DOWN" THEN q
             ELSE IF 2 * r > SweepUnit \/ (2 * r = SweepUnit /\ q % 2 = 1)
                  THEN q + 1 ELSE q
    IN  Sign(value) * FlRound(k * SweepUnit, Pow(10, digit))

SweepFormatOneDigit(value, mode) == SweepRound(value, 1, mode)

\* to_assign = format_params(amp), digit left at its default
SweepFormat(value, mode) == SweepRound(value, DefaultDigit, mode)

RoughXvalUnformatted(amp, to_assign) == amp

\* circ.metadata = {"xval": to_assign}
RoughXval(amp, to_assign) == to_assign

DefaultAmpNum == 51

\* experiment_options of RoughEFAmplitudeCal and of a fine amplitude experiment
RoughOptions(amp_min, amp_max, amp_num) ==
    [kind |-> "RoughEFAmplitudeCal", amp_min |-> amp_min, amp_max |-> amp_max,
     amp_num |-> amp_num, nreps |-> <<>>]

FineOptions(nreps) ==
    [kind |-> "FineEFSXAmplitudeCal", amp_min |-> 0, amp_max |-> 0, amp_num |-> 0,
     nreps |-> nreps]

DefaultRoughOptions ==
    RoughOptions(FloatValue(<<-1, 2>>), FloatValue(<<1, 2>>), DefaultAmpNum)

MaxReps == 2

RECURSIVE RepLists(_)
RepLists(n) ==
    IF n = 0 THEN {<<>>}
    ELSE RepLists(n - 1)
         \cup {Append(l, r) : l \in {x \in RepLists(n - 1) : Len(x) = n - 1}, r \in {0, 1, 3}}

OptionSets ==
    {RoughOptions(FloatValue(a), FloatValue(b), n) :
        a \in {<<-1, 2>>, <<-1, 4>>}, b \in {<<1, 2>>, <<1, 4>>}, n \in {1, 2, DefaultAmpNum}}
    \cup {FineOptions(l) : l \in RepLists(MaxReps)}

\* a stimulus program: its gates in order, its metadata (xval, series), the
\* value bound to the amp parameter and the schedule attached to its gate.
\* series is "" where the metadata has no such entry, "1" for the number 1.
Program(gates, xval, series, amp, sched) ==
    [gates |-> gates, xval |-> xval, series |-> series, amp |-> amp, sched |-> sched]

CircInit ==
    /\ now = 0
    /\ \E with_values \in BOOLEAN : params = UpdStore(with_values)
    /\ nadded = 0
    /\ built = NotBuilt
    /\ run_pc = "idle"
    /\ circ_opt \in OptionSets
    /\ circ_pc = "start"
    /\ circ_i = 0
    /\ circs = <<>>

\* RoughEFAmplitudeCal.circuits(), lines 82-100: the Rabi schedule is built in
\* the qutrit context; its amp stays a free parameter
RoughCircuitsBegin ==
    /\ circ_pc = "start" /\ circ_opt.kind = "RoughEFAmplitudeCal"
    /\ LET freq == QutritContext(params, now, <<0, 1>>)
       IN  IF freq = Missing
           THEN circ_pc' = "raised" /\ UNCHANGED built
           ELSE /\ circ_pc' = "loop"
                /\ built' = [status |-> "ok", freq |-> freq, amp |-> <<0, 1>>]
    /\ UNCHANGED <<params, now, nadded, run_pc, circ_opt, circ_i, circs,
                   selVars, fmtVars, updVars, rbVars, rbcVars, fbVars, runVars, ctxVars>>

\* one iteration of: for amp in amps
RoughCircuitsStep ==
    /\ circ_pc = "loop" /\ circ_opt.kind = "RoughEFAmplitudeCal"
    /\ circ_i < circ_opt.amp_num
    /\ LET amp == Linspace(circ_opt.amp_min, circ_opt.amp_max, circ_opt.amp_num, circ_i)
           to_assign == SweepFormat(amp, rounding)
       IN  circs' = Append(circs,
              Program(<<"x", "rabi", "x", "measure">>, RoughXval(amp, to_assign), "",
                      to_assign, built))
    /\ circ_i' = circ_i + 1
    /\ UNCHANGED <<storeVars, circ_opt, circ_pc, selVars, fmtVars, updVars, rbVars, rbcVars, fbVars, runVars, ctxVars>>

\* return circs
RoughCircuitsReturn ==
    /\ circ_pc = "loop" /\ circ_opt.kind = "RoughEFAmplitudeCal"
    /\ circ_i = circ_opt.amp_num
    /\ circ_pc' = "returned"
    /\ UNCHANGED <<storeVars, circ_opt, circ_i, circs, selVars, fmtVars, updVars, rbVars, rbcVars, fbVars, runVars, ctxVars>>

\* FineEFSXAmplitudeCal._sequence_under_test(nrep): the qutrit context, then
\* nrep plays of sx12; the amp of sx12 is looked up only when nrep > 0
SequenceUnderTestRep(p, clock, nrep) ==
    LET freq == QutritContext(p, clock, <<0, 1>>)
    IN  IF nrep > 0 THEN SequenceUnderTest(p, clock)
        ELSE IF freq = Missing
             THEN [status |-> Missing, freq |-> <<0, 1>>, amp |-> <<0, 1>>]
             ELSE [status |-> "ok", freq |-> freq, amp |-> <<0, 1>>]

SpamCal0 == Program(<<"id", "measure">>, 0, "spam-cal", 0, NotBuilt)
SpamCal1 == Program(<<"x", "measure">>, 1, "spam-cal", 0, NotBuilt)

FineCircuitsNoSpam ==
    /\ circ_pc = "start" /\ circ_opt.kind = "FineEFSXAmplitudeCal"
    /\ circs' = <<>>
    /\ circ_pc' = "loop"
    /\ UNCHANGED <<storeVars, circ_opt, circ_i, selVars, fmtVars, updVars, rbVars, rbcVars, fbVars, runVars, ctxVars>>

\* FineEFAmplitudeCal.circuits(), lines 82-103: circs = [circ0, circ1]
FineCircuitsSpam ==
    /\ circ_pc = "start" /\ circ_opt.kind = "FineEFSXAmplitudeCal"
    /\ circs' = <<SpamCal0, SpamCal1>>
    /\ circ_pc' = "loop"
    /\ UNCHANGED <<storeVars, circ_opt, circ_i, selVars, fmtVars, updVars, rbVars, rbcVars, fbVars, runVars, ctxVars>>

\* one iteration of: for nrep in opt.nreps
FineCircuitsStep ==
    /\ circ_pc = "loop" /\ circ_opt.kind = "FineEFSXAmplitudeCal"
    /\ circ_i < Len(circ_opt.nreps)
    /\ LET nrep == circ_opt.nreps[circ_i + 1]
           sched == SequenceUnderTestRep(params, now, nrep)
       IN  IF sched.status = Missing
           THEN circ_pc' = "raised" /\ UNCHANGED <<circs, circ_i>>
           ELSE /\ circs' = Append(circs,
                      Program(<<"x", "amplification", "x", "measure">>, nrep, "1", 0, sched))
                /\ circ_i' = circ_i + 1
                /\ UNCHANGED circ_pc
    /\ UNCHANGED <<storeVars, circ_opt, selVars, fmtVars, updVars, rbVars, rbcVars, fbVars, runVars, ctxVars>>

\* return circs
FineCircuitsReturn ==
    /\ circ_pc = "loop" /\ circ_opt.kind = "FineEFSXAmplitudeCal"
    /\ circ_i = Len(circ_opt.nreps)
    /\ circ_pc' = "returned"
    /\ UNCHANGED <<storeVars, circ_opt, circ_i, circs, selVars, fmtVars, updVars, rbVars, rbcVars, fbVars, runVars, ctxVars>>

CircNext ==
    \/ RoughCircuitsBegin
    \/ RoughCircuitsStep
    \/ RoughCircuitsReturn
    \/ FineCircuitsSpam
    \/ FineCircuitsStep
    \/ FineCircuitsReturn

(***************************************************************************)
(* One run of a calibration experiment: circuits(), the backend job, the   *)
(* analysis and update_calibrations, for RoughEFAmplitudeCal and           *)
(* NarrowBandEFSpectroscopyCal.  Both classes are built with               *)
(* auto_update=True, so update_calibrations runs as a callback once the    *)
(* analysis has finished, while the schedules of another experiment may be *)
(* resolved from the same store.                                           *)
(***************************************************************************)
RunKinds == {"RoughEFAmplitudeCal", "NarrowBandEFSpectroscopyCal"}

EntryNotFound == "ExperimentEntryNotFound"

\* the analysis results of the experiment data: the names of the entries and
\* the values they carry
NoResults == [analysed |-> FALSE, names |-> {}, value |-> <<0, 1>>, value2 |-> <<0, 1>>]

Results(names, value, value2) ==
    [analysed |-> TRUE, names |-> names, value |-> value, value2 |-> value2]

\* OscillationAnalysis with result_parameters=[ParameterRepr("freq", "Ω12")]
RoughOutcomes == {Results({"Ω12"}, omega, <<0, 1>>) : omega \in {<<3, 1>>, <<5, 2>>}}

NarrowBandAnalyses == {"DoublePeakResonanceAnalysis", "SinglePeakResonanceAnalysis"}

\* what one surviving candidate of the narrow-band analysis reports
CandidateResults(candidate) ==
    IF candidate = "DoublePeakResonanceAnalysis"
    THEN Results({"Δα0", "Δα1"}, <<2, 1>>, <<5, 1>>)
    ELSE Results({"Δα"}, <<3, 1>>, <<0, 1>>)

\* MultipleCurveAnalysis._run_analysis: the results of one of the surviving
\* candidates; `if not chisqs: return [], []`
NarrowBandOutcomes(survivors) ==
    IF survivors = {} THEN {Results({}, <<0, 1>>, <<0, 1>>)}
    ELSE {CandidateResults(candidate) : candidate \in survivors}

\* BaseUpdater.get_value(experiment_data, name, -1)
GetValue(results, name) == name \in results.names

NoReader == [seen |-> FALSE, during |-> FALSE, x12 |-> <<0, 1>>, sx12 |-> <<0, 1>>]

NoPair == <<<<0, 1>>, <<0, 1>>>>

RunInit ==
    /\ now = 0
    /\ \E with_values \in BOOLEAN : params = UpdStore(with_values)
    /\ nadded = 0
    /\ built = NotBuilt
    /\ run_pc = "idle"
    /\ x_kind = "none"
    /\ x_pc = "idle"
    /\ x_results = NoResults
    /\ x_error = NoError
    /\ x_pre = NoPair
    /\ reader = NoReader

RunIdle ==
    /\ x_kind = "none"
    /\ x_pc = "idle"
    /\ x_results = NoResults
    /\ x_error = NoError
    /\ x_pre = NoPair
    /\ reader = NoReader

RunOthers == <<now, built, run_pc, selVars, fmtVars, updVars, circVars, rbVars, rbcVars,
               fbVars, ctxVars>>

CircuitsStoreWriting(p) == AddValue(p, KeyAmpX, ParameterValue(<<1, 2>>, 0))

\* the store after circuits(): qutrit_context and play_calibration call
\* get_parameter_value and get_schedule only
CircuitsStore(p) == p

\* circuits() of either class: qutrit_context reads α and drive_freq, the
\* schedule is built from the parameters of x12; a missing value raises
RunCircuits ==
    /\ x_pc \in {"idle", "done", "raised"}
    /\ nadded < MaxEntries
    /\ \E kind \in RunKinds : x_kind' = kind
    /\ LET freq == QutritContext(params, now, <<0, 1>>)
           amp == PlayCalibration(params, now, "x12")
       IN  IF freq = Missing \/ amp = Missing
           THEN x_pc' = "raised" /\ x_error' = Missing
           ELSE x_pc' = "built" /\ x_error' = NoError
    /\ params' = CircuitsStore(params)
    /\ x_results' = NoResults
    /\ x_pre' = NoPair
    /\ reader' = NoReader
    /\ UNCHANGED <<nadded, RunOthers>>

\* the circuits are submitted and the job runs to completion
RunJob ==
    /\ x_pc = "built"
    /\ x_pc' = "submitted"
    /\ UNCHANGED <<params, nadded, x_kind, x_results, x_error, x_pre, reader, RunOthers>>

\* RoughEFAmplitudeCal: analysis=OscillationAnalysis()
RoughAnalysis ==
    /\ x_pc = "submitted" /\ x_kind = "RoughEFAmplitudeCal"
    /\ x_results' \in RoughOutcomes
    /\ x_pc' = "analysed"
    /\ UNCHANGED <<params, nadded, x_kind, x_error, x_pre, reader, RunOthers>>

\* NarrowBandEFSpectroscopyCal: MultipleCurveAnalysis(DoublePeak..., SinglePeak...)
NarrowBandAnalysis ==
    /\ x_pc = "submitted" /\ x_kind = "NarrowBandEFSpectroscopyCal"
    /\ \E survivors \in SUBSET NarrowBandAnalyses : x_results' \in NarrowBandOutcomes(survivors)
    /\ x_pc' = "analysed"
    /\ UNCHANGED <<params, nadded, x_kind, x_error, x_pre, reader, RunOthers>>

\* RoughEFAmplitudeCal.update_calibrations up to the end of the first
\* add_parameter_value (param="amp", schedule="x12")
RoughUpdateFirst ==
    /\ x_pc = "analysed" /\ x_kind = "RoughEFAmplitudeCal"
    /\ x_pre' = <<GetCurrent(params, KeyAmpX, now), GetCurrent(params, KeyAmpSX, now)>>
    /\ params' = UpdaterAddParameterValue(params, KeyAmpX,
                    ParameterValue(PiAmp(x_results.value), now))
    /\ nadded' = nadded + 1
    /\ x_pc' = "updating"
    /\ UNCHANGED <<x_kind, x_results, x_error, reader, RunOthers>>

\* the second add_parameter_value (param="amp", schedule="sx12")
RoughUpdateSecond ==
    /\ x_pc = "updating"
    /\ params' = UpdaterAddParameterValue(params, KeyAmpSX,
                    ParameterValue(HalfPiAmp(PiAmp(x_results.value)), now))
    /\ nadded' = nadded + 1
    /\ x_pc' = "done"
    /\ UNCHANGED <<x_kind, x_results, x_error, x_pre, reader, RunOthers>>

\* the try block finds Δα0 and Δα1, or else the handler finds Δα
NarrowBandFound(results) ==
    \/ GetValue(results, "Δα0") /\ GetValue(results, "Δα1")
    \/ GetValue(results, "Δα")

\* NarrowBandEFSpectroscopyCal.update_calibrations
NarrowBandUpdate ==
    /\ x_pc = "analysed" /\ x_kind = "NarrowBandEFSpectroscopyCal"
    /\ IF ~NarrowBandFound(x_results)
       THEN /\ x_pc' = "raised" /\ x_error' = EntryNotFound
            /\ UNCHANGED <<params, nadded>>
       ELSE LET delta == IF GetValue(x_results, "Δα0")
                         THEN RMul(<<1, 2>>, RAdd(x_results.value, x_results.value2))
                         ELSE x_results.value
                anh == GetCurrent(params, KeyAlpha, now)
            IN  /\ params' = UpdaterAddParameterValue(params, KeyAlpha,
                                ParameterValue(RAdd(anh, delta), now))
                /\ nadded' = nadded + 1
                /\ x_pc' = "done" /\ x_error' = NoError
    /\ UNCHANGED <<x_kind, x_results, x_pre, reader, RunOthers>>

\* the schedules of another experiment are resolved from the same store:
\* get_schedule of x12 and of sx12 read the current amp of each
ReaderResolves ==
    /\ x_pc \in {"analysed", "updating", "done"}
    /\ x_kind = "RoughEFAmplitudeCal"
    /\ reader' = [seen |-> TRUE, during |-> x_pc = "updating",
                  x12 |-> PlayCalibration(params, now, "x12"),
                  sx12 |-> PlayCalibration(params, now, "sx12")]
    /\ UNCHANGED <<params, nadded, x_kind, x_pc, x_results, x_error, x_pre, RunOthers>>

RunNext ==
    \/ RunCircuits
    \/ RunJob
    \/ RoughAnalysis
    \/ NarrowBandAnalysis
    \/ RoughUpdateFirst
    \/ RoughUpdateSecond
    \/ NarrowBandUpdate
    \/ ReaderResolves
    \/ Tick

(***************************************************************************)
(* The decimal context.  decimal.getcontext() is the context of the        *)
(* calling thread; a thread that has not touched its context rounds        *)
(* ROUND_HALF_EVEN.  Importing utils assigns ROUND_DOWN to the context of  *)
(* the importing thread, and format_params rounds in the context of the    *)
(* thread that calls it.                                                   *)
(***************************************************************************)
Threads == {"main", "worker"}

RoundingModes == {"ROUND_DOWN", "ROUND_HALF_EVEN"}

NotCalled == [called |-> FALSE, out |-> 0]

CtxInit ==
    /\ thread_rounding = [t \in Threads |-> ImportRoundingDefault]
    /\ imported = FALSE
    /\ ctx_value \in Floats
    /\ ctx_digit \in 0..MaxDigit
    /\ ctx_out = [t \in Threads |-> NotCalled]
    /\ other_out = [t \in Threads |-> NotCalled]

CtxIdle ==
    /\ thread_rounding = [t \in Threads |-> ImportRoundingDefault]
    /\ imported = FALSE
    /\ ctx_value = 0
    /\ ctx_digit = 0
    /\ ctx_out = [t \in Threads |-> NotCalled]
    /\ other_out = [t \in Threads |-> NotCalled]

CtxOthers == <<storeVars, selVars, fmtVars, updVars, circVars, rbVars, rbcVars, fbVars, runVars>>

\* the main thread imports the module: line 22 runs once
ImportUtils ==
    /\ ~imported
    /\ imported' = TRUE
    /\ thread_rounding' = [thread_rounding EXCEPT !["main"] = ImportRounding]
    /\ UNCHANGED <<ctx_value, ctx_digit, ctx_out, other_out, CtxOthers>>

\* other code of the process sets the rounding of its thread's context
SetRounding ==
    /\ \E t \in Threads : \E mode \in RoundingModes :
          /\ thread_rounding[t] # mode
          /\ thread_rounding' = [thread_rounding EXCEPT ![t] = mode]
    /\ UNCHANGED <<imported, ctx_value, ctx_digit, ctx_out, other_out, CtxOthers>>

\* format_params(value, digit) called in thread t
CallFormatParams ==
    /\ imported
    /\ \E t \in Threads :
          /\ ~ctx_out[t].called
          /\ ctx_out' = [ctx_out EXCEPT ![t] =
                [called |-> TRUE,
                 out |-> FormatParams(ctx_value, ctx_digit, thread_rounding[t])]]
    /\ UNCHANGED <<thread_rounding, imported, ctx_value, ctx_digit, other_out, CtxOthers>>

\* other code calls round(decimal.Decimal(value), digit) in thread t
OtherCodeRounds ==
    /\ \E t \in Threads :
          /\ ~other_out[t].called
          /\ other_out' = [other_out EXCEPT ![t] =
                [called |-> TRUE,
                 out |-> RoundDecimal(ctx_value, ctx_digit, thread_rounding[t])]]
    /\ UNCHANGED <<thread_rounding, imported, ctx_value, ctx_digit, ctx_out, CtxOthers>>

CtxNext ==
    \/ ImportUtils
    \/ SetRounding
    \/ CallFormatParams
    \/ OtherCodeRounds

(***************************************************************************)
(* Specifications.                                                         *)
(***************************************************************************)
Init == StoreInit /\ SelIdle /\ FmtIdle /\ UpdIdle /\ CircIdle /\ RbIdle /\ RbcIdle /\ FbIdle
    /\ RunIdle /\ CtxIdle

Next ==
    \/ AddParameterValue
    \/ InvalidateBefore
    \/ Tick
    \/ Circuits
    \/ RunAndAnalyse
    \/ FineSXUpdateCalibrations
    \/ FineSXUpdateMissing

Spec == Init /\ [][Next]_vars

SelSpecInit == StoreIdle /\ SelInit /\ FmtIdle /\ UpdIdle /\ CircIdle /\ RbIdle /\ RbcIdle /\ FbIdle
    /\ RunIdle /\ CtxIdle

SelSpec == SelSpecInit /\ [][SelNext]_vars

FmtSpecInit == StoreIdle /\ SelIdle /\ FmtInit /\ UpdIdle /\ CircIdle /\ RbIdle /\ RbcIdle /\ FbIdle
    /\ RunIdle /\ CtxIdle

FmtSpec == FmtSpecInit /\ [][FmtNext]_vars

UpdSpecInit == UpdInit /\ SelIdle /\ FmtIdle /\ CircIdle /\ RbIdle /\ RbcIdle /\ FbIdle
    /\ RunIdle /\ CtxIdle

UpdSpec == UpdSpecInit /\ [][UpdNext]_vars

CircSpecInit == CircInit /\ SelIdle /\ FmtIdle /\ UpdIdle /\ RbIdle /\ RbcIdle /\ FbIdle
    /\ RunIdle /\ CtxIdle

CircSpec == CircSpecInit /\ [][CircNext]_vars

RbSpecInit == StoreIdle /\ SelIdle /\ FmtIdle /\ UpdIdle /\ CircIdle /\ RbInit /\ RbcIdle /\ FbIdle
    /\ RunIdle /\ CtxIdle

RbSpec == RbSpecInit /\ [][RbNext]_vars

RbcSpecInit == StoreIdle /\ SelIdle /\ FmtIdle /\ UpdIdle /\ CircIdle /\ RbIdle /\ RbcInit /\ FbIdle
    /\ RunIdle /\ CtxIdle

RbcSpec == RbcSpecInit /\ [][RbcNext]_vars

FbSpecInit ==
    StoreIdle /\ SelIdle /\ FmtIdle /\ UpdIdle /\ CircIdle /\ RbIdle /\ RbcIdle /\ FbInit
    /\ RunIdle /\ CtxIdle

FbSpec == FbSpecInit /\ [][FbNext]_vars

RunSpecInit ==
    /\ RunInit /\ SelIdle /\ FmtIdle /\ UpdIdle /\ CircIdle /\ RbIdle /\ RbcIdle /\ FbIdle
    /\ CtxIdle

RunSpec == RunSpecInit /\ [][RunNext]_vars

CtxSpecInit ==
    /\ StoreIdle /\ SelIdle /\ FmtIdle /\ UpdIdle /\ CircIdle /\ RbIdle /\ RbcIdle /\ FbIdle
    /\ RunIdle /\ CtxInit

CtxSpec == CtxSpecInit /\ [][CtxNext]_vars

(***************************************************************************)
(* Properties of the parameter store (checked under Spec).                 *)
(***************************************************************************)
Times == 0..MaxTime

Eligible(h, i, q) == h[i].valid /\ h[i].date_time <= q

\* entry i is the most recent eligible entry of h, the later inserted on a tie
MostRecent(h, i, q) ==
    /\ Eligible(h, i, q)
    /\ \A j \in 1..Len(h) :
          Eligible(h, j, q) =>
             \/ h[j].date_time < h[i].date_time
             \/ h[j].date_time = h[i].date_time /\ j <= i

\* C1: for every key k and query time q, get_current(k, q) is the value of the
\* most recent valid entry of k with timestamp <= q, and it fails with
\* MissingParameter exactly when k has no such entry.
C1_GetCurrentMostRecent ==
    \A k \in Keys : \A q \in Times :
       LET h == params[k]
       IN  /\ GetCurrent(params, k, q) = Missing
                 <=> ~(\E i \in 1..Len(h) : Eligible(h, i, q))
           /\ \A i \in 1..Len(h) :
                 MostRecent(h, i, q) => GetCurrent(params, k, q) = h[i].value

\* C1 witness: a key whose current value is not its last inserted entry (the
\* later entry carries an older timestamp), an untouched key, and a build that
\* failed on the untouched key.
C1_Witness ==
    /\ \E k \in Keys :
          /\ Len(params[k]) = 2
          /\ params[k][1].valid /\ params[k][2].valid
          /\ params[k][2].date_time < params[k][1].date_time
          /\ params[k][1].value # params[k][2].value
          /\ GetCurrent(params, k, now) = params[k][1].value
          /\ GetCurrent(params, k, params[k][2].date_time) = params[k][2].value
    /\ \E k \in Keys : Len(params[k]) = 0 /\ GetCurrent(params, k, now) = Missing
    /\ run_pc = "failed"

\* C2: the store is append-only: in every step each key keeps every entry it
\* had, at the same position with the same value and timestamp; only validity
\* flags may change and histories only grow.
C2_AppendOnly ==
    [][\A k \in Keys :
          /\ Len(params'[k]) >= Len(params[k])
          /\ \A i \in 1..Len(params[k]) :
                /\ params'[k][i].value = params[k][i].value
                /\ params'[k][i].date_time = params[k][i].date_time]_vars

\* C2 witness: a calibration update has appended its corrected amplitude after
\* the value it corrected, and an invalidation has flagged an entry that is
\* still present.
C2_Witness ==
    /\ run_pc = "idle"
    /\ Len(params[KeyAmpSX]) = 2
    /\ params[KeyAmpSX][1].value \in ValueSet(KeyAmpSX)
    /\ \E e \in AngleErrors :
          params[KeyAmpSX][2].value = FineAmp(params[KeyAmpSX][1].value, TargetAngleSX, e)
    /\ \E k \in Keys : \E i \in 1..Len(params[k]) : ~params[k][i].valid

\* C3: adding an entry whose timestamp equals that of an existing entry of the
\* key succeeds (the history grows by exactly that entry), and among valid
\* entries with equal timestamps the one inserted last is the current value.
C3_DuplicateTimestamps ==
    /\ \A k \in Keys : \A i \in 1..Len(params[k]) : \A v \in ValueSet(k) :
          LET t == params[k][i].date_time
              p2 == AddValue(params, k, ParameterValue(v, t))
          IN  /\ Len(p2[k]) = Len(params[k]) + 1
              /\ p2[k][Len(p2[k])] = ParameterValue(v, t)
              /\ GetCurrent(p2, k, t) = v
    /\ \A k \in Keys : \A i, j \in 1..Len(params[k]) : \A q \in Times :
          LET h == params[k]
          IN  (/\ i < j
               /\ h[i].date_time = h[j].date_time
               /\ MostRecent(h, j, q))
              => GetCurrent(params, k, q) = h[j].value

\* C3 witness: two valid entries of one key with the same timestamp and
\* different values; the current value is the second.
C3_Witness ==
    \E k \in Keys :
       /\ Len(params[k]) = 2
       /\ params[k][1].valid /\ params[k][2].valid
       /\ params[k][1].date_time = params[k][2].date_time
       /\ params[k][1].value # params[k][2].value
       /\ GetCurrent(params, k, now) = params[k][2].value

\* C4: every circuits() call resolves drive_freq, the anharmonicity and the gate
\* amplitude from the store as it is at that call: the stimulus it builds
\* carries the store's current values of that moment, and the build fails with
\* MissingParameter exactly when one of them has no current value.  (A step
\* that leaves the store and the clock alone and ends an idle or failed run
\* in "built" or "failed" is a circuits() call.)
C4_BuildReadsStore ==
    [][(/\ run_pc \in {"idle", "failed"}
        /\ run_pc' \in {"built", "failed"}
        /\ params' = params /\ now' = now) =>
          LET anh == GetCurrent(params', KeyAlpha, now')
              f01 == GetCurrent(params', KeyDriveFreq, now')
              amp == GetCurrent(params', KeyAmpSX, now')
          IN  IF anh = Missing \/ f01 = Missing \/ amp = Missing
              THEN run_pc' = "failed" /\ built' = NotBuilt
              ELSE /\ run_pc' = "built"
                   /\ built'.status = "ok"
                   /\ built'.freq = RAdd(f01, anh)
                   /\ built'.amp = amp]_vars

\* C4 witness: the anharmonicity was given a second, later value and the
\* stimulus just built carries drive_freq plus that second value.
C4_Witness ==
    /\ run_pc = "built"
    /\ Len(params[KeyAlpha]) = 2
    /\ params[KeyAlpha][1].value # params[KeyAlpha][2].value
    /\ params[KeyAlpha][2].date_time > params[KeyAlpha][1].date_time
    /\ built.freq = RAdd(GetCurrent(params, KeyDriveFreq, now), params[KeyAlpha][2].value)
    /\ built.amp = GetCurrent(params, KeyAmpSX, now)

(***************************************************************************)
(* Properties of MultipleCurveAnalysis (checked under SelSpec).            *)
(***************************************************************************)
SelFinished == sel_pc \in {"returned", "raised"}

\* candidate i returned results holding a fit-parameter entry
Survives(i) ==
    /\ ~analyses[i].raises
    /\ \E j \in 1..Len(analyses[i].results) : IsParamsEntry(analyses[i].results[j])

\* the fit-parameter entry the loop over results reaches first
DecidingEntry(i) ==
    LET r == analyses[i].results
    IN  r[CHOOSE j \in 1..Len(r) :
            IsParamsEntry(r[j]) /\ \A m \in 1..Len(r) : IsParamsEntry(r[m]) => j <= m]

\* candidate i produced a chi-square value
HasValue(i) == Survives(i) /\ DecidingEntry(i).has_chisq

CandidateIds == 1..Len(analyses)

\* C5: when some candidate produced a chi-square, the selector returns exactly
\* the results and the figures of the first candidate in declaration order
\* whose chi-square is the minimum over the candidates that produced one.
C5_ReturnsFirstMinimum ==
    (SelFinished /\ \E i \in CandidateIds : HasValue(i)) =>
       /\ sel_pc = "returned"
       /\ ret.error = NoError
       /\ \E b \in CandidateIds :
             /\ HasValue(b)
             /\ \A j \in CandidateIds :
                   HasValue(j) => DecidingEntry(b).chisq <= DecidingEntry(j).chisq
             /\ \A j \in 1..(b - 1) :
                   HasValue(j) => DecidingEntry(b).chisq < DecidingEntry(j).chisq
             /\ ret.results = analyses[b].results
             /\ ret.figures = analyses[b].figures

\* C5 witness: the first candidate raised, the second and third tie on the
\* minimum chi-square, and the second one's results and figures are returned.
C5_Witness ==
    /\ sel_pc = "returned"
    /\ Len(analyses) = 3
    /\ analyses[1].raises
    /\ HasValue(2) /\ HasValue(3)
    /\ DecidingEntry(2).chisq = DecidingEntry(3).chisq
    /\ analyses[2].results # analyses[3].results
    /\ ret.results = analyses[2].results
    /\ ret.figures = analyses[2].figures

\* C6: every declared candidate is attempted exactly once, in declaration
\* order, whatever the earlier candidates did, and no exception raised by a
\* candidate leaves the selector.
C6_FailuresIsolated ==
    /\ attempted = [i \in 1..idx |-> i]
    /\ SelFinished => idx = Len(analyses)
    /\ ret.error # CandidateError

\* C6 witness: the first of three candidates raised, all three were attempted
\* in order and the third one's results were returned.
C6_Witness ==
    /\ sel_pc = "returned"
    /\ Len(analyses) = 3
    /\ analyses[1].raises
    /\ attempted = <<1, 2, 3>>
    /\ HasValue(3)
    /\ ret.results = analyses[3].results

\* C7: when no candidate survives (each raised or returned no fit-parameter
\* entry, or there is no candidate), the selector returns an empty result list
\* and an empty figure list and does not raise.
C7_NoSurvivorReturnsEmpty ==
    (idx = Len(analyses) /\ (\A i \in CandidateIds : ~Survives(i))) =>
       /\ chisqs = <<>>
       /\ sel_pc # "raised"
       /\ sel_pc = "returned" => ret = Returned(<<>>, <<>>, NoError)

\* C7 witness: one candidate raised, another returned results without a
\* fit-parameter entry, and the selector returned the empty pair.
C7_Witness ==
    /\ sel_pc = "returned"
    /\ Len(analyses) = 2
    /\ analyses[1].raises
    /\ ~analyses[2].raises /\ analyses[2].results # <<>> /\ ~Survives(2)
    /\ ret = Returned(<<>>, <<>>, NoError)

\* C8 (as claimed): a surviving candidate without a chi-square is never
\* returned when another candidate has a chi-square, and when every surviving
\* candidate lacks a chi-square the selector still returns the results of one
\* of them.
C8_NaNCandidateStillReturned ==
    SelFinished =>
       /\ \A i \in CandidateIds :
             (Survives(i) /\ ~HasValue(i) /\ \E j \in CandidateIds : HasValue(j))
                => ret.results # analyses[i].results
       /\ ((\E i \in CandidateIds : Survives(i))
             /\ (\A i \in CandidateIds : ~HasValue(i)))
          => /\ sel_pc = "returned"
             /\ \E i \in CandidateIds :
                   Survives(i) /\ ret.results = analyses[i].results

(***************************************************************************)
(* Properties of format_params (checked under FmtSpec).                    *)
(***************************************************************************)
\* the largest k with k / 10^digit <= |value|
Truncated(value, digit) ==
    CHOOSE k \in 0..(MaxMag * Pow(10, digit)) :
       /\ k * Unit <= Abs(value) * Pow(10, digit)
       /\ (k + 1) * Unit > Abs(value) * Pow(10, digit)

\* distance, scaled by 10^digit * Unit, between the float f and sgn * k / 10^digit
Distance(f, sgn, k, digit) == Abs(f * Pow(10, digit) - sgn * k * Unit)

\* C9: format_params(value, digit) truncates toward zero: with k / 10^digit
\* the largest multiple of 10^-digit whose magnitude does not exceed |value|,
\* the result is the float nearest to that multiple taken with the sign of
\* value, and its magnitude does not exceed |value|.
C9_TruncatesTowardZero ==
    fmt_pc # "start" =>
       LET k == Truncated(fmt_value, fmt_digit)
           sgn == Sign(fmt_value)
       IN  /\ fmt_out \in Floats
           /\ \A f \in Floats :
                 Distance(fmt_out, sgn, k, fmt_digit) <= Distance(f, sgn, k, fmt_digit)
           /\ Abs(fmt_out) <= Abs(fmt_value)
           /\ fmt_out # 0 => Sign(fmt_out) = sgn

\* C9 witness: a negative value that is not a multiple of 10^-digit and lies
\* above the midpoint between two multiples has been formatted to the
\* multiple nearer to zero.
C9_Witness ==
    /\ fmt_pc = "once"
    /\ fmt_digit = 1
    /\ fmt_value < 0
    /\ Truncated(fmt_value, 1) >= 1
    /\ 2 * (Abs(fmt_value) * 10 - Truncated(fmt_value, 1) * Unit) > Unit
    /\ fmt_out = FloatOf(-Truncated(fmt_value, 1), 1)

\* C10 (as claimed): format_params is idempotent.
C10_Idempotent ==
    fmt_pc = "twice" => fmt_out2 = fmt_out

(***************************************************************************)
(* Properties of the calibration updates (checked under UpdSpec).          *)
(***************************************************************************)
\* the update handler of an experiment of class kind runs to completion
UpdStep(kind) == run_pc = "analysed" /\ exp_data.kind = kind /\ run_pc' = "idle"

\* the step appends one valid entry (v, t) to key k
Appends(k, v, t) ==
    params'[k] = Append(params[k], [value |-> v, date_time |-> t, valid |-> TRUE])

\* the step leaves the histories of all keys outside ks as they are
Keeps(ks) == \A k \in UpdKeys \ ks : params'[k] = params[k]

\* new * (target + error) = current * target, with target and error in units
\* of pi/2
IsCorrected(new, current, target, error) ==
    RMul(new, RAdd(target, error)) = RMul(current, target)

\* C14: a completed fine-amplitude update appends exactly one value
\* current * target / (target + measured_error) to the amp it read (target
\* pi/2 and schedule sx12 for FineEFSXAmplitudeCal, target pi and schedule x12
\* for FineEFXAmplitudeCal) and leaves every other history, the amp of the
\* other schedule included, unchanged.
C14_FineAmplitudeUpdate ==
    [][/\ UpdStep("FineEFSXAmplitudeCal") =>
             /\ Len(params'[KeyAmpSX]) = Len(params[KeyAmpSX]) + 1
             /\ \E v \in {params'[KeyAmpSX][Len(params'[KeyAmpSX])].value} :
                   /\ Appends(KeyAmpSX, v, exp_data.t)
                   /\ IsCorrected(v, GetCurrent(params, KeyAmpSX, now), <<1, 1>>,
                                  exp_data.value)
             /\ Keeps({KeyAmpSX})
       /\ UpdStep("FineEFXAmplitudeCal") =>
             /\ Len(params'[KeyAmpX]) = Len(params[KeyAmpX]) + 1
             /\ \E v \in {params'[KeyAmpX][Len(params'[KeyAmpX])].value} :
                   /\ Appends(KeyAmpX, v, exp_data.t)
                   /\ IsCorrected(v, GetCurrent(params, KeyAmpX, now), <<2, 1>>,
                                  exp_data.value)
             /\ Keeps({KeyAmpX})]_vars

\* C14 witness: from current 0.2 and a measured error of 0.1 * pi/2 the sx12
\* update appended 2/11 = 0.1818..., and the x12 update appended 8/21 from
\* current 0.4 and the same error against the target pi.
C14_Witness ==
    /\ run_pc = "idle"
    /\ Len(params[KeyAmpSX]) = 2
    /\ params[KeyAmpSX][1].value = <<1, 5>> /\ params[KeyAmpSX][2].value = <<2, 11>>
    /\ Len(params[KeyAmpX]) = 2
    /\ params[KeyAmpX][1].value = <<2, 5>> /\ params[KeyAmpX][2].value = <<8, 21>>

\* no valid entry of key k is stamped later than t
NoLaterEntry(k, t) ==
    \A i \in 1..Len(params[k]) : params[k][i].valid => params[k][i].date_time <= t

\* v is a multiple of 10^-8 nearest to 1 / (2 * omega)
NearestAtEightDecimals(v, omega) ==
    /\ 100000000 % v[2] = 0
    /\ LET a == v[1] * (100000000 \div v[2])
           p == omega[2]
           q == 2 * omega[1]
       IN  2 * Abs(a * q - p * 100000000) <= q

\* twice the rational y, in lowest terms
Double(y) == IF y[2] % 2 = 0 THEN <<y[1], y[2] \div 2>> ELSE <<2 * y[1], y[2]>>

\* C15 (as claimed): the rough-amplitude update writes amp of x12 as
\* pi / (2 pi rate) and amp of sx12 as half of it, and after the update
\* current amp(sx12) = current amp(x12) / 2.
C15_RoughAmplitudeExact ==
    [][UpdStep("RoughEFAmplitudeCal") =>
          /\ Appends(KeyAmpX, <<exp_data.value[2], 2 * exp_data.value[1]>>, exp_data.t)
          /\ GetCurrent(params', KeyAmpX, now')
                = Double(GetCurrent(params', KeyAmpSX, now'))]_vars

\* C15 (amended): the rough-amplitude update appends to amp of x12 the value
\* pi / (2 pi rate) rounded to 8 decimal places and to amp of sx12 exactly
\* half of the value appended for x12, both stamped with the time of the
\* experiment data, and changes nothing else; when neither key holds a valid
\* entry stamped later than that, current amp(sx12) = current amp(x12) / 2
\* after the update.
C15_RoughAmplitudeRounded ==
    [][UpdStep("RoughEFAmplitudeCal") =>
          /\ Len(params'[KeyAmpX]) = Len(params[KeyAmpX]) + 1
          /\ Len(params'[KeyAmpSX]) = Len(params[KeyAmpSX]) + 1
          /\ LET x == params'[KeyAmpX][Len(params'[KeyAmpX])].value
                 sx == params'[KeyAmpSX][Len(params'[KeyAmpSX])].value
             IN  /\ Appends(KeyAmpX, x, exp_data.t)
                 /\ Appends(KeyAmpSX, sx, exp_data.t)
                 /\ NearestAtEightDecimals(x, exp_data.value)
                 /\ x = Double(sx)
          /\ Keeps({KeyAmpX, KeyAmpSX})
          /\ (NoLaterEntry(KeyAmpX, exp_data.t) /\ NoLaterEntry(KeyAmpSX, exp_data.t)) =>
                GetCurrent(params', KeyAmpX, now')
                   = Double(GetCurrent(params', KeyAmpSX, now'))]_vars

\* C15 witness: a measured rate of 3 was written as 0.16666667 to x12 and as
\* 0.083333335 to sx12, and these are the current values.
C15_Witness ==
    /\ run_pc = "idle"
    /\ exp_data.kind = "RoughEFAmplitudeCal" /\ exp_data.value = <<3, 1>>
    /\ GetCurrent(params, KeyAmpX, now) = <<16666667, 100000000>>
    /\ GetCurrent(params, KeyAmpSX, now) = <<16666667, 200000000>>

\* C16: a completed spectroscopy update appends current α + offset to α and
\* changes nothing else; for NarrowBandEFSpectroscopyCal the offset is the
\* mean of Δα0 and Δα1 when two resonances were reported and Δα otherwise.
C16_AnharmonicityUpdate ==
    [][/\ UpdStep("RoughEFFrequencyCal") =>
             /\ Appends(KeyAlpha, RAdd(GetCurrent(params, KeyAlpha, now), exp_data.value),
                        exp_data.t)
             /\ Keeps({KeyAlpha})
       /\ UpdStep("NarrowBandEFSpectroscopyCal") =>
             /\ Len(params'[KeyAlpha]) = Len(params[KeyAlpha]) + 1
             /\ LET new == params'[KeyAlpha][Len(params'[KeyAlpha])].value
                    offset == RAdd(new, RMul(<<-1, 1>>, GetCurrent(params, KeyAlpha, now)))
                IN  /\ Appends(KeyAlpha, new, exp_data.t)
                    /\ IF exp_data.two
                       THEN RAdd(offset, offset) = RAdd(exp_data.value, exp_data.value2)
                       ELSE offset = exp_data.value
             /\ Keeps({KeyAlpha})]_vars

\* C16 witness: two resonances at offsets 2 and 5 moved α from -300 to -296.5.
C16_Witness ==
    /\ run_pc = "idle"
    /\ exp_data.kind = "NarrowBandEFSpectroscopyCal" /\ exp_data.two
    /\ Len(params[KeyAlpha]) = 2
    /\ params[KeyAlpha][1].value = <<-300, 1>>
    /\ params[KeyAlpha][2].value = <<-593, 2>>

\* C17: a completed DRAG update appends the fitted β12 unchanged to the β of
\* the schedule under calibration (x12 for RoughEFXDragCal, sx12 for
\* RoughEFSXDragCal) and leaves every other history, the β of the other
\* schedule included, unchanged.
C17_DragUpdate ==
    [][/\ UpdStep("RoughEFXDragCal") =>
             Appends(KeyBetaX, exp_data.value, exp_data.t) /\ Keeps({KeyBetaX})
       /\ UpdStep("RoughEFSXDragCal") =>
             Appends(KeyBetaSX, exp_data.value, exp_data.t) /\ Keeps({KeyBetaSX})]_vars

\* C17 witness: both DRAG experiments have written their own β: 1/2 for x12
\* and -3/4 for sx12, each after the first value 0.
C17_Witness ==
    /\ run_pc = "idle"
    /\ Len(params[KeyBetaX]) = 2 /\ params[KeyBetaX][2].value = <<1, 2>>
    /\ Len(params[KeyBetaSX]) = 2 /\ params[KeyBetaSX][2].value = <<-3, 4>>

(***************************************************************************)
(* Properties of circuits() (checked under CircSpec).                      *)
(***************************************************************************)
IsRough == circ_opt.kind = "RoughEFAmplitudeCal"
IsFine == circ_opt.kind = "FineEFSXAmplitudeCal"

\* the i-th value of the sweep, before formatting
SweepValue(i) == Linspace(circ_opt.amp_min, circ_opt.amp_max, circ_opt.amp_num, i - 1)

\* the float of the thousandth k / 1000, with the sign of v
Thousandth(k, v) == Sign(v) * FlRound(k * SweepUnit, Pow(10, DefaultDigit))

\* the thousandths from 0 to 1/2, the largest magnitude of a sweep value
Thousandths == 0..(Pow(10, DefaultDigit) \div 2)

\* 1000 times the magnitude of the i-th sweep value, in grid units
Scaled(i) == Abs(SweepValue(i)) * Pow(10, DefaultDigit)

\* C11 (as claimed): every amplitude bound into a stimulus is the multiple of
\* 0.001 nearest to the sweep value, a value halfway between two multiples
\* going to the one of lower magnitude.
C11_RoundHalfDown ==
    IsRough =>
        \A i \in 1..Len(circs) :
            LET n == Scaled(i)
            IN  \E k \in Thousandths :
                    /\ (2 * k - 1) * SweepUnit < 2 * n
                    /\ 2 * n <= (2 * k + 1) * SweepUnit
                    /\ circs[i].amp = Thousandth(k, SweepValue(i))

\* C11 (amended): every amplitude bound into a stimulus is the sweep value
\* truncated toward zero to 3 decimal digits: the multiple of 0.001 of
\* largest magnitude that does not exceed the magnitude of the sweep value.
C11_Truncated ==
    IsRough =>
        \A i \in 1..Len(circs) :
            LET n == Scaled(i)
            IN  \E k \in Thousandths :
                    /\ k * SweepUnit <= n
                    /\ n < (k + 1) * SweepUnit
                    /\ circs[i].amp = Thousandth(k, SweepValue(i))

\* C11 witness: a sweep value that lies above the midpoint between two
\* thousandths has been bound as the thousandth nearer to zero.
C11_Witness ==
    /\ IsRough
    /\ \E i \in 1..Len(circs) :
           LET n == Scaled(i)
           IN  \E k \in Thousandths :
                   /\ (2 * k + 1) * SweepUnit < 2 * n
                   /\ n < (k + 1) * SweepUnit
                   /\ circs[i].amp = Thousandth(k, SweepValue(i))
                   /\ circs[i].amp # Thousandth(k + 1, SweepValue(i))

\* C12: circuits() with amp_min = -0.5, amp_max = 0.5, amp_num = 51 returns 51
\* programs whose xvals are strictly ascending in list order (hence pairwise
\* distinct), and each program's bound amplitude equals its xval.
C12_DefaultSweep ==
    (circ_pc = "returned" /\ circ_opt = DefaultRoughOptions) =>
        /\ Len(circs) = 51
        /\ \A i \in 1..Len(circs) : \A j \in 1..Len(circs) :
               i < j => circs[i].xval < circs[j].xval
        /\ \A i \in 1..Len(circs) : circs[i].amp = circs[i].xval

\* C12 witness: the default sweep has been returned; it runs from -0.5 to
\* 0.5 and holds a formatted value that differs from the sweep value.
C12_Witness ==
    /\ circ_pc = "returned" /\ circ_opt = DefaultRoughOptions
    /\ Len(circs) = 51
    /\ circs[1].xval = -(SweepUnit \div 2)
    /\ circs[51].xval = SweepUnit \div 2
    /\ \E i \in 1..Len(circs) : circs[i].xval # SweepValue(i)

\* C13: for every nreps list the returned list is the two SPAM programs
\* (identity only with xval 0, X only with xval 1, both in series
\* "spam-cal") followed by one program per nreps entry, in order, in series
\* 1 with xval the repetition count.
C13_SpamThenReps ==
    (circ_pc = "returned" /\ IsFine) =>
        /\ Len(circs) = 2 + Len(circ_opt.nreps)
        /\ circs[1].gates = <<"id", "measure">>
        /\ circs[1].xval = 0 /\ circs[1].series = "spam-cal"
        /\ circs[2].gates = <<"x", "measure">>
        /\ circs[2].xval = 1 /\ circs[2].series = "spam-cal"
        /\ \A i \in 1..Len(circ_opt.nreps) :
               /\ circs[2 + i].xval = circ_opt.nreps[i]
               /\ circs[2 + i].series = "1"
               /\ circs[2 + i].gates = <<"x", "amplification", "x", "measure">>

\* C13 witness: circuits() has returned for a non-empty nreps list that is
\* not in ascending order.
C13_Witness ==
    /\ circ_pc = "returned" /\ IsFine
    /\ circ_opt.nreps = <<3, 1>>
    /\ Len(circs) = 4

(***************************************************************************)
(* Properties of the benchmarking sequences (checked under RbSpec).        *)
(***************************************************************************)
\* C18: when the generator has ended, the emitted elements (the sampled
\* ones, then the adjoint), applied in emission order, make the identity up
\* to a global phase.
C18_ComposesToIdentity ==
    rb_pc = "done" => Proportional(InOrder(rb_emitted), Identity)

\* C18 witness: a sequence of two sampled elements that do not commute and
\* whose product is not the identity has been closed by the adjoint.
C18_Witness ==
    /\ rb_pc = "done"
    /\ Len(rb_emitted) = 3
    /\ ~Proportional(MMul(rb_emitted[1], rb_emitted[2]), MMul(rb_emitted[2], rb_emitted[1]))
    /\ ~Proportional(rb_emitted[3], Identity)

C20_DecompositionExact ==
    rb_yield.yielded =>
        Proportional(InOrder([k \in 1..5 |-> GateMatrix(SequenceToInstructions(rb_yield)[k])]),
                     rb_emitted[Len(rb_emitted)])

\* C20 witness: after a diagonal element other than the identity
\* (U[1,0] = 0), an antidiagonal element (U[1,1] = 0) has been decomposed,
\* with cmath.phase of the zero entry giving pi.
C20_Witness ==
    /\ Len(rb_emitted) = 2
    /\ rb_emitted[1][3] = CZero /\ ~Proportional(rb_emitted[1], Identity)
    /\ rb_emitted[2][4] = CZero
    /\ rb_yield \in {ToParameters(rb_emitted[2], d, 4, 0) : d \in DetPhases(rb_emitted[2])}

(***************************************************************************)
(* Properties of the benchmarking circuits (checked under RbcSpec).        *)
(***************************************************************************)
\* the instructions of circuit c between the leading X gate and the trailing
\* X gate and measurement
StepsPart(c) == SubSeq(c.data, 2, Len(c.data) - 2)

\* the number of six-instruction blocks in that part, and the k-th block
Blocks(c) == Len(StepsPart(c)) \div 6
Block(c, k) == SubSeq(StepsPart(c), 6 * k - 5, 6 * k)

IsPolar == rbc_opt.kind = "EFPolarRB1Q"

PolarAngles == -4..4

\* C21: a finished polar circuit of length L holds exactly L decomposed
\* steps, none of them a closing step, and the two angles of every step lie
\* between -pi and pi.
C21_PolarStepCount ==
    IsPolar =>
        \A i \in 1..Len(exp_circs) :
            LET c == exp_circs[i]
            IN  /\ Len(c.data) = 3 + 6 * c.xval
                /\ \A k \in 1..c.xval :
                       /\ Block(c, k)[1].phi \in PolarAngles
                       /\ -Block(c, k)[5].phi \in PolarAngles

\* C21 witness: polar circuits of lengths 0 and 2 have been finished, the
\* second with two steps of different angles.
C21_Witness ==
    /\ IsPolar
    /\ \E i \in 1..Len(exp_circs) : exp_circs[i].xval = 0
    /\ \E i \in 1..Len(exp_circs) :
           /\ exp_circs[i].xval = 2
           /\ Blocks(exp_circs[i]) = 2
           /\ Block(exp_circs[i], 1) # Block(exp_circs[i], 2)

\* C25: every step of a polar circuit is phase(a1), full rotation,
\* phase(a2 - a1), full rotation, phase(-a2) for two angles a1, a2, and its
\* three phase arguments sum to zero; with a1 = a2 = 0 all three are zero.
C25_PolarStep ==
    IsPolar =>
        \A i \in 1..Len(exp_circs) : \A k \in 1..Blocks(exp_circs[i]) :
            LET st == Block(exp_circs[i], k)
            IN  /\ st[1].name = "rz12" /\ st[3].name = "rz12" /\ st[5].name = "rz12"
                /\ st[2] = X12Gate /\ st[4] = X12Gate
                /\ st[1].phi + st[3].phi + st[5].phi = 0
                /\ st[3].phi = (-st[5].phi) - st[1].phi
                /\ (st[1].phi = 0 /\ st[5].phi = 0) => st[3].phi = 0

\* C25 witness: a step with a1 = a2 = 0 and a step with a1 # a2, both
\* nonzero, have been emitted.
C25_Witness ==
    /\ IsPolar
    /\ \E i \in 1..Len(exp_circs) : \E k \in 1..Blocks(exp_circs[i]) :
           LET st == Block(exp_circs[i], k)
           IN  st[1].phi = 0 /\ st[3].phi = 0 /\ st[5].phi = 0
    /\ \E i \in 1..Len(exp_circs) : \E k \in 1..Blocks(exp_circs[i]) :
           LET st == Block(exp_circs[i], k)
           IN  st[1].phi # 0 /\ st[5].phi # 0 /\ st[3].phi # 0

\* C26: every finished circuit is one X gate, then the steps, each five
\* gates followed by a barrier (so a barrier stands between every two
\* consecutive steps and never inside a step), then one X gate, then the
\* measurement.
C26_CircuitLayout ==
    \A i \in 1..Len(exp_circs) :
        LET c == exp_circs[i]
            n == Len(c.data)
        IN  /\ n >= 3
            /\ c.data[1] = XGate /\ c.data[n - 1] = XGate /\ c.data[n] = Measure
            /\ Len(StepsPart(c)) = 6 * Blocks(c)
            /\ Blocks(c) = IF IsPolar \/ c.xval = 0 THEN c.xval ELSE c.xval + 1
            /\ \A k \in 1..Blocks(c) :
                   /\ \A j \in 1..5 : Block(c, k)[j].name \in {"rz12", "sx12", "x12"}
                   /\ Block(c, k)[6] = Barrier

\* C26 witness: a circuit of the Clifford experiment with three steps has
\* been finished.
C26_Witness ==
    /\ rbc_opt.kind = "EFStandardRB1Q"
    /\ \E i \in 1..Len(exp_circs) :
           /\ Blocks(exp_circs[i]) = 3
           /\ Block(exp_circs[i], 1) # Block(exp_circs[i], 2)

\* C28: the second call of circuits() with the same options returns the
\* same circuits as the first.
C28_Reproducible ==
    (rbc_pc = "returned" /\ rbc_call = 2) => exp_circs = first_circs

\* C28 witness: the second call has returned circuits with steps, after
\* numpy's global generator was drawn from between the two calls.
C28_Witness ==
    /\ rbc_pc = "returned" /\ rbc_call = 2
    /\ np_random # 0
    /\ Len(exp_circs) >= 2
    /\ \E i \in 1..Len(exp_circs) : Blocks(exp_circs[i]) >= 2

(***************************************************************************)
(* Properties of from_backend, save and load (checked under FbSpec).       *)
(***************************************************************************)
\* the qubits of the backend that have no usable control line
Unusable == {q \in Qubits(fb_backend.num_qubits) : ~HasControlLine(fb_backend, q)}

\* the qubits listed in a blacklist
Listed(bl) == {bl[i] : i \in 1..Len(bl)}

\* C22 (as claimed): for a backend with unusable qubits from_backend does not
\* raise, and the store it returns has every unusable qubit in its
\* blacklist, every other qubit in its control-channel map, and no qubit in
\* both.
C22_BlacklistInsteadOfFailure ==
    Unusable # {} =>
        /\ fb_pc # "raised"
        /\ fb_pc = "returned" =>
               /\ Listed(cals.blacklist.value) = Unusable
               /\ Mapped(cals.control_channel_map) = Qubits(fb_backend.num_qubits) \ Unusable

\* C23 (as claimed): the loaded store has the parameter histories of the
\* live store at save time (so get_current agrees for every key and time), its
\* control-channel map and its blacklist.
C23_RoundTrip ==
    loaded.class # "none" =>
        /\ loaded_params = params
        /\ \A k \in DOMAIN params : \A c \in 0..MaxTime :
               GetCurrent(loaded_params, k, c) = GetCurrent(params, k, c)
        /\ loaded.control_channel_map = cals.control_channel_map
        /\ loaded.blacklist = cals.blacklist

(***************************************************************************)
(* Properties of an experiment run (checked under RunSpec).                *)
(***************************************************************************)
\* C24: when the model selection of a narrow-band spectroscopy run ends with
\* no surviving candidate, the run ends without an exception: the empty
\* result is what the run hands on, and update_calibrations raises nothing.
C24_NoUsableFitIsTerminal ==
    (/\ x_kind = "NarrowBandEFSpectroscopyCal"
     /\ x_results.analysed
     /\ x_results.names = {})
       => x_error = NoError /\ x_pc # "raised"

\* C27: within a run the store changes only in a step of update_calibrations,
\* taken after the analysis has completed; circuits(), the job and the
\* analysis leave every entry of the store as it was.
C27_StoreWrittenOnlyByUpdate ==
    [][params' # params =>
          /\ x_results.analysed
          /\ x_pc \in {"analysed", "updating"}
          /\ x_pc' \in {"updating", "done"}]_vars

\* C27 witness: a rough-amplitude run went through circuits(), the job and
\* the analysis, and its update has added one value to each of the two keys.
C27_Witness ==
    /\ x_kind = "RoughEFAmplitudeCal" /\ x_pc = "done"
    /\ Len(params[KeyAmpX]) = 2 /\ Len(params[KeyAmpSX]) = 2

\* C29: what is read from the store while a rough-amplitude update is under
\* way never pairs the amp the update gives x12 with the amp sx12 had before
\* the update.
C29_ReaderSeesSnapshot ==
    reader.during =>
       LET pi_amp == PiAmp(x_results.value)
       IN  ~(/\ reader.x12 = pi_amp
             /\ reader.sx12 = x_pre[2]
             /\ x_pre[2] # HalfPiAmp(pi_amp))

(***************************************************************************)
(* Properties of format_params and the decimal context (checked under      *)
(* CtxSpec).                                                               *)
(***************************************************************************)
\* C30: format_params(value, digit) returns the same float in every thread
\* and whatever the rounding of the ambient decimal context has been set to
\* since the import.
C30_DependsOnArgumentsOnly ==
    \A t1, t2 \in Threads :
       (ctx_out[t1].called /\ ctx_out[t2].called) => ctx_out[t1].out = ctx_out[t2].out

====
